---- MODULE Spec2Model ----
(***************************************************************************)
(* Multi-hop RAG orchestration of the JAIL-Break server.                   *)
(*                                                                         *)
(* The repository holds two RAGService classes: the one the HTTP server    *)
(* runs (server/index.js) and the standalone one the test-suite runner     *)
(* runs (server/rag_service.js).  impl selects which of the two a          *)
(* behaviour is about; every action follows the code of that class.        *)
(***************************************************************************)
EXTENDS Integers, Sequences, FiniteSets, TLC

(***************************************************************************)
(* Bounds of the model.                                                    *)
(***************************************************************************)
\* Largest number of questions a modelled follow-up response carries.
MaxFollowUps == 2
\* Number of times the process environment is modified after startup.
MaxEnvChanges == 1
\* Longest list of passages given to deduplicateResults on its own.
MaxResults == 3
\* truncateDocuments on its own: longest list of passages, longest text,
\* largest maxCharsPerDoc and largest maxTotalChars.
MaxDocs == 3
MaxTextLen == 3
MaxPerDoc == 3
MaxTotal == 40
\* generateFollowUpQuestions on its own: most elements or lines of one kind
\* in a response, and most elements or lines of mixed kinds.
MaxItems == 9
MaxMixed == 2
\* performRetrieval on its own: largest k of a call.
MaxK == 2
\* The evaluation run and the test-suite run: longest list of questions.
MaxQuestions == 3
\* The prompt budgets: most passages of the initial retrieval and of the
\* follow-up retrievals together.
MaxInitial == 4
MaxAdditional == 2

(***************************************************************************)
(* Program constants.                                                      *)
(***************************************************************************)
\* k of the first hop: performRetrieval(question, 15).
InitialK == 15
\* k of every follow-up retrieval: performRetrieval(followUp, 8).
FollowUpK == 8
\* questions.slice(0, 8) in generateFollowUpQuestions.
FollowUpCap == 8
\* Characters of the text in the key of deduplicateResults (index.js).
KeyPrefixLen == 100
\* EnsembleRetriever weights [0.6, 0.4], in tenths.
DocWeight == 6
TransWeight == 4
\* truncateDocuments(initialResults, 1500, 6000) in generateFollowUpQuestions.
FollowUpPerDoc == 1500
FollowUpTotal == 6000
\* truncateDocuments(allResults, 2000, 10000) in generateFinalAnswer.
FinalPerDoc == 2000
FinalTotal == 10000

Impls == {"index", "rag_service"}
Providers == {"openai", "ollama"}
Colls == <<"documents", "transcriptions">>
CollSet == {"documents", "transcriptions"}

\* What a caller can pass as the question: undefined, "" and a real question.
Questions == {"missing", "", "q"}
\* `!question` of the POST /api/query handler.
IsFalsy(question) == question \in {"missing", ""}

\* Messages of the errors a provider call can raise.
ErrMsgs == {"timeout", "quota"}
\* TypeError of `this.chain.invoke` when this.chain is null (index.js).
NullChainMsg == "Cannot read properties of null (reading 'invoke')"
\* Error thrown by createChain (index.js) when getRetriever() returns null.
NoRetrieversMsg == "No retrievers available"

Min(a, b) == IF a < b THEN a ELSE b
Max(a, b) == IF a > b THEN a ELSE b
Other(p) == IF p = "openai" THEN "ollama" ELSE "openai"

(***************************************************************************)
(* Passages and similarity sources.                                        *)
(***************************************************************************)
\* The two addDocuments methods, which name the metadata fields differently:
\*   index.js (the upload route):  document_id, chunk_index
\*   rag_service.js:               documentId,  chunkIndex
Writers == {"index", "rag_service"}

\* A chunk as addDocuments of the implementation w stores it: the chunk i of
\* the document d, with the text t (a sequence of characters).
Chunk(c, d, i, t, w) ==
  [collection |-> c, documentId |-> d, chunkIndex |-> i, pageContent |-> t,
   writer |-> w]

\* One chunk of the collection c.  The stores on disk are written by the
\* upload route of index.js, the only caller of addDocuments, and both
\* implementations load them from the same directories.
Passage(c, i) == Chunk(c, c, i, <<c, i>>, "index")

\* The chunks stored in the collection c.
Corpus(c) == {Passage(c, 0)}

\* The ranked lists a similarity source can answer with: some chunks of its
\* collection, in some order.
SourceLists(c) ==
  UNION {{s \in [1..n -> Corpus(c)] : \A i, j \in 1..n : i # j => s[i] # s[j]} :
           n \in 0..Cardinality(Corpus(c))}
\* A similarity source answers with a ranked list (ok), or its call rejects
\* (fail); a collection without a loaded store is not called at all.
Fail == [status |-> "fail", list |-> <<>>]
NotCalled == [status |-> "notcalled", list |-> <<>>]
SourceOutcomes(c, loaded) ==
  IF loaded
    THEN [status : {"ok"}, list : SourceLists(c)] \cup {Fail}
    ELSE {NotCalled}

\* A value computed inside a try block, or the fact that it threw.
Value(v) == [thrown |-> FALSE, value |-> v]
Throw == [thrown |-> TRUE, value |-> <<>>]

\* Ranks at which a passage with the text t stands in the ranked list l.
RanksOf(l, t) == {i \in 1..Len(l) : l[i].pageContent = t}

RECURSIVE RrfDen(_)
\* Common denominator of the reciprocal ranks 1/(r + 60), r in ranks.
RrfDen(ranks) ==
  IF ranks = {} THEN 1
  ELSE LET r == CHOOSE x \in ranks : TRUE
       IN (r + 60) * RrfDen(ranks \ {r})

RECURSIVE RrfSum(_, _, _)
\* Sum of weight / (r + 60) over the ranks r, scaled by den.
RrfSum(ranks, weight, den) ==
  IF ranks = {} THEN 0
  ELSE LET r == CHOOSE x \in ranks : TRUE
       IN weight * (den \div (r + 60)) + RrfSum(ranks \ {r}, weight, den)

\* Weighted reciprocal-rank score of the text t, scaled by den: the score is
\* kept per pageContent, and every document of a list that has the text t
\* adds weight / (rank + 60) to it.
RrfScore(t, docList, transList, den) ==
  RrfSum(RanksOf(docList, t), DocWeight, den)
  + RrfSum(RanksOf(transList, t), TransWeight, den)

\* The score of the text t is greater than the score of the text u.
ScoreAbove(t, u, docList, transList) ==
  LET den == RrfDen(RanksOf(docList, t) \cup RanksOf(transList, t)
                    \cup RanksOf(docList, u) \cup RanksOf(transList, u))
  IN RrfScore(t, docList, transList, den) > RrfScore(u, docList, transList, den)

RECURSIVE UniqueUnion(_, _)
\* First occurrence of every pageContent, in order.
UniqueUnion(l, seen) ==
  IF l = <<>> THEN <<>>
  ELSE IF Head(l).pageContent \in seen THEN UniqueUnion(Tail(l), seen)
  ELSE <<Head(l)>> \o UniqueUnion(Tail(l), seen \cup {Head(l).pageContent})

RECURSIVE SortByScore(_, _, _)
\* Stable sort by descending score (Array.prototype.sort is stable).
SortByScore(l, docList, transList) ==
  IF l = <<>> THEN <<>>
  ELSE
    LET rest == SortByScore(Tail(l), docList, transList)
        t == Head(l).pageContent
        before == SelectSeq(rest, LAMBDA x :
                    ScoreAbove(x.pageContent, t, docList, transList))
        after == SelectSeq(rest, LAMBDA x :
                   ~ScoreAbove(x.pageContent, t, docList, transList))
    IN before \o <<Head(l)>> \o after

\* EnsembleRetriever.getRelevantDocuments over both retrievers: the two source
\* calls are joined, so one rejecting call rejects the whole retrieval.
EnsembleGetRelevantDocuments(docOut, transOut) ==
  IF docOut.status = "fail" \/ transOut.status = "fail" THEN Throw
  ELSE Value(SortByScore(UniqueUnion(docOut.list \o transOut.list, {}),
                         docOut.list, transOut.list))

\* The try block of performRetrieval: the list it computes, or Throw.
RetrieveOrThrow(stores, docOut, transOut) ==
  LET valid == {c \in CollSet : stores[c]}
  IN IF valid = {} THEN Throw
     ELSE IF Cardinality(valid) > 1
       THEN EnsembleGetRelevantDocuments(docOut, transOut)
     ELSE IF stores["documents"]
       THEN (IF docOut.status = "fail" THEN Throw ELSE Value(docOut.list))
     ELSE (IF transOut.status = "fail" THEN Throw ELSE Value(transOut.list))

PerformRetrievalKeepingPartial(stores, docOut, transOut, k) ==
  LET r == RetrieveOrThrow(stores, docOut, transOut)
  IN IF r.thrown THEN docOut.list \o transOut.list
     ELSE SubSeq(r.value, 1, Min(k, Len(r.value)))

PerformRetrievalUnsliced(stores, docOut, transOut, k) ==
  LET r == RetrieveOrThrow(stores, docOut, transOut)
  IN IF r.thrown THEN <<>> ELSE r.value

\* performRetrieval(query, k): results.slice(0, k), [] when anything threw.
PerformRetrieval(stores, docOut, transOut, k) ==
  LET r == RetrieveOrThrow(stores, docOut, transOut)
  IN IF r.thrown THEN <<>> ELSE SubSeq(r.value, 1, Min(k, Len(r.value)))

\* doc.metadata[field] as the implementation im spells the field: the stored
\* value when the chunk was written under that spelling, else undefined.
MetadataField(im, p, value) == IF p.writer = im THEN value ELSE "undefined"

\* text.substring(0, n).
Substring(text, n) == SubSeq(text, 1, Min(n, Len(text)))

\* Key under which deduplicateResults remembers a passage.
\*   rag_service.js: `${metadata.documentId}-${metadata.chunkIndex}`
\*   index.js:       `${pageContent.substring(0, 100)}_${metadata.document_id}`
DedupKey(im, p) ==
  IF im = "rag_service"
    THEN <<MetadataField(im, p, p.documentId), MetadataField(im, p, p.chunkIndex)>>
    ELSE <<Substring(p.pageContent, KeyPrefixLen), MetadataField(im, p, p.documentId)>>

RECURSIVE DedupFromForgetful(_, _, _)
DedupFromForgetful(im, l, seen) ==
  IF l = <<>> THEN <<>>
  ELSE IF DedupKey(im, Head(l)) \in seen THEN DedupFromForgetful(im, Tail(l), {})
  ELSE <<Head(l)>> \o DedupFromForgetful(im, Tail(l), seen \cup {DedupKey(im, Head(l))})
RECURSIVE DedupFrom(_, _, _)
DedupFrom(im, l, seen) ==
  IF l = <<>> THEN <<>>
  ELSE IF DedupKey(im, Head(l)) \in seen THEN DedupFrom(im, Tail(l), seen)
  ELSE <<Head(l)>> \o DedupFrom(im, Tail(l), seen \cup {DedupKey(im, Head(l))})

\* deduplicateResults(results).
DeduplicateResults(im, results) == DedupFrom(im, results, {})


(***************************************************************************)
(* truncateDocuments.                                                      *)
(***************************************************************************)
\* The text "... [truncated]".
TruncationMarker ==
  <<".", ".", ".", " ", "[", "t", "r", "u", "n", "c", "a", "t", "e", "d", "]">>

TruncatedContentNoMarker(content, maxCharsPerDoc) ==
  Substring(content, maxCharsPerDoc)
\* truncatedContent of one document.
TruncatedContent(content, maxCharsPerDoc) ==
  IF Len(content) > maxCharsPerDoc
    THEN Substring(content, maxCharsPerDoc) \o TruncationMarker
    ELSE content

RECURSIVE TruncateFromSkipping(_, _, _, _)
TruncateFromSkipping(documents, maxCharsPerDoc, maxTotalChars, totalChars) ==
  IF documents = <<>> THEN <<>>
  ELSE LET truncatedContent ==
             TruncatedContent(Head(documents).pageContent, maxCharsPerDoc)
       IN IF totalChars + Len(truncatedContent) > maxTotalChars
            THEN TruncateFromSkipping(Tail(documents), maxCharsPerDoc,
                                      maxTotalChars, totalChars)
            ELSE <<[Head(documents) EXCEPT !.pageContent = truncatedContent]>>
                   \o TruncateFromSkipping(Tail(documents), maxCharsPerDoc,
                                           maxTotalChars,
                                           totalChars + Len(truncatedContent))
\* The for loop of truncateDocuments over the documents left, totalChars
\* being the characters accepted so far.
RECURSIVE TruncateFrom(_, _, _, _)
TruncateFrom(documents, maxCharsPerDoc, maxTotalChars, totalChars) ==
  IF documents = <<>> THEN <<>>
  ELSE LET truncatedContent ==
             TruncatedContent(Head(documents).pageContent, maxCharsPerDoc)
       IN IF totalChars + Len(truncatedContent) > maxTotalChars
            THEN <<>>
            ELSE <<[Head(documents) EXCEPT !.pageContent = truncatedContent]>>
                   \o TruncateFrom(Tail(documents), maxCharsPerDoc, maxTotalChars,
                                   totalChars + Len(truncatedContent))

TruncateDocumentsPerDocOnly(documents, maxCharsPerDoc, maxTotalChars) ==
  [i \in 1..Len(documents) |->
     [documents[i] EXCEPT
        !.pageContent = TruncatedContent(documents[i].pageContent, maxCharsPerDoc)]]
\* truncateDocuments(documents, maxCharsPerDoc, maxTotalChars).
TruncateDocuments(documents, maxCharsPerDoc, maxTotalChars) ==
  TruncateFrom(documents, maxCharsPerDoc, maxTotalChars, 0)


(***************************************************************************)
(* Provider responses and follow-up parsing.                               *)
(***************************************************************************)
\* result.answer of a provider call that succeeded, as the parser of
\* generateFollowUpQuestions reads it:
\*   array     - JSON text of an array; items are the types of its elements
\*   json      - JSON text of a value that is not an array (an object, a
\*               string, a number); items are the segments of its raw text
\*   text      - not JSON: lines of text; items are the kinds of the lines
\*   undefined - not a string at all
\* A line of text is a numbered question (1. What ...?), a quoted question
\* ("What ...?"), a plain sentence ending in a question mark, or a statement
\* without a question mark.
ItemTypes == {"string", "number", "object", "null"}
SegmentKinds == {"numbered", "quoted", "plain", "statement"}
Repeat(x, n) == [i \in 1..n |-> x]

\* The responses to the follow-up prompt a query is run with.
Answers ==
  {[kind |-> "array", items |-> Repeat("string", n)] : n \in 0..MaxFollowUps}
    \cup {[kind |-> "text", items |-> Repeat("plain", n)] : n \in 0..MaxFollowUps}
    \cup [kind : {"json", "undefined"}, items : {<<>>}]
\* Answers of the final generation call: free text, or no text.
FinalAnswers == [kind : {"text", "undefined"}, items : {<<>>}]
NoAnswer == [kind |-> "none", items |-> <<>>]

\* The question string read at position i of a response.
FollowUp(i) == <<"followup", i>>
\* The element i of a parsed JSON array: a question string, or a value of
\* another type.
Element(type, i) == IF type = "string" THEN FollowUp(i) ELSE <<type, i>>

SliceAll(l, n) == l
SliceOneMore(l, n) == SubSeq(l, 1, Min(n + 1, Len(l)))
\* array.slice(0, n).
Slice(l, n) == SubSeq(l, 1, Min(n, Len(l)))

\* JSON.parse(result.answer): the parsed value, or Throw (SyntaxError).
JsonParse(answer) ==
  IF answer.kind \in {"array", "json"} THEN Value(answer) ELSE Throw

\* text.match(regex) with the g flag: the positions of the lines the regex
\* matches, in order (<<>> is null).
Matches(items, kinds) ==
  SelectSeq([i \in 1..Len(items) |-> i], LAMBDA i : items[i] \in kinds)

\* text.match(/\d+\.\s*([^?\n]+[?])/g) || text.match(/"([^"]+[?])"/g) ||
\* text.match(/([^.\n]+[?])/g): numbered questions; else quoted questions;
\* else every line ending in a question mark.  Throw is the TypeError of a
\* text that is not a string.
TextMatch(answer) ==
  IF answer.kind = "undefined" THEN Throw
  ELSE IF Matches(answer.items, {"numbered"}) # <<>>
    THEN Value(Matches(answer.items, {"numbered"}))
  ELSE IF Matches(answer.items, {"quoted"}) # <<>>
    THEN Value(Matches(answer.items, {"quoted"}))
  ELSE Value(Matches(answer.items, {"numbered", "quoted", "plain"}))

\* questions.slice(0, 8).map((q) => q.replace(..)): each match without the
\* quotes, digits, dots and spaces around it.
StripMatches(matches) ==
  [k \in 1..Len(Slice(matches, FollowUpCap)) |-> FollowUp(matches[k])]

\* The inner try/catch of generateFollowUpQuestions.
ParseQuestions(answer) ==
  IF ~JsonParse(answer).thrown
    THEN IF JsonParse(answer).value.kind = "array"
           THEN Value(Slice([i \in 1..Len(answer.items) |->
                               Element(answer.items[i], i)], FollowUpCap))
           ELSE Value(<<>>)
    ELSE IF TextMatch(answer).thrown THEN Throw
         ELSE IF TextMatch(answer).value = <<>> THEN Value(<<>>)
         ELSE Value(StripMatches(TextMatch(answer).value))

(***************************************************************************)
(* invokeWithFallback.                                                     *)
(***************************************************************************)
\* What one provider call can do: answer, or raise an error.
ProviderOutcomes(answers) ==
  [ok : {TRUE}, answer : answers, msg : {"none"}]
    \cup [ok : {FALSE}, answer : {NoAnswer}, msg : ErrMsgs]

\* Activation record of one invokeWithFallback call.
\*   pc: idle | primary | fallback | returned | thrown
\*   calls: the provider calls made so far, in order
NoInvocation ==
  [pc |-> "idle", primary |-> "none", calls |-> <<>>, primaryError |-> "none",
   fallbackError |-> "none", provider |-> "none", answer |-> NoAnswer,
   message |-> <<>>]
NewInvocation == [NoInvocation EXCEPT !.pc = "primary"]

\* The name invokeWithFallback gives the provider it tries first.
\*   rag_service.js: "openai" if process.env.OPENAI_API_KEY is set at the call.
\*   index.js: this.primaryProvider, fixed by the constructor.
PrimaryLabel(im, environment, primaryProv) ==
  IF im = "rag_service"
    THEN (IF environment.OPENAI_API_KEY THEN "openai" ELSE "ollama")
    ELSE primaryProv

\* The provider the primary attempt calls.
\*   rag_service.js: a ChatOpenAI or an Ollama client built for the call.
\*   index.js: this.chain, which setupChain built over this.llm.
PrimaryLLM(im, environment, theLlm) ==
  IF im = "rag_service"
    THEN (IF environment.OPENAI_API_KEY THEN "openai" ELSE "ollama")
    ELSE theLlm

\* The provider the fallback attempt calls and the name it is given, from the
\* name of the primary (index.js: this.primaryProvider === "openai";
\* rag_service.js: openaiApiKey, read when the call started).
FallbackLLM(primaryLabel) == IF primaryLabel = "openai" THEN "ollama" ELSE "openai"
FallbackLabelOfPrimary(primaryLabel) == primaryLabel
FallbackLabel(primaryLabel) == IF primaryLabel = "openai" THEN "ollama" ELSE "openai"

\* getRetriever() of index.js is null when no store is loaded.
HasRetriever(stores) == \E c \in CollSet : stores[c]

CompositeMessageFallbackOnly(primaryMsg, fallbackMsg) ==
  <<"Both providers failed: ", fallbackMsg>>
\* Text of the error thrown when both attempts failed.
CompositeMessage(primaryMsg, fallbackMsg) ==
  <<"Both providers failed. Primary: ", primaryMsg, ", Fallback: ", fallbackMsg>>

\* One provider call in the log of an invocation.
Call(provider, out) ==
  [provider |-> provider, ok |-> out.ok, msg |-> out.msg, answer |-> out.answer]

\* return { result, provider } of the primary branch.
ReturnPrimary(rec, label, llmUsed, out) ==
  [rec EXCEPT !.pc = "returned", !.primary = label,
              !.calls = Append(@, Call(llmUsed, out)),
              !.provider = label, !.answer = out.answer]

\* return { result, provider } of the fallback branch.
ReturnFallback(rec, out) ==
  [rec EXCEPT !.pc = "returned",
              !.calls = Append(@, Call(FallbackLLM(rec.primary), out)),
              !.provider = FallbackLabel(rec.primary), !.answer = out.answer]

\* throw new Error(`Both providers failed. ...`): the fallback call failed.
ThrowBoth(rec, out) ==
  [rec EXCEPT !.pc = "thrown",
              !.calls = Append(@, Call(FallbackLLM(rec.primary), out)),
              !.fallbackError = out.msg,
              !.message = CompositeMessage(rec.primaryError, out.msg)]

\* throw new Error(`Both providers failed. ...`): createChain(fallbackLLM)
\* threw, so the fallback provider was not called.
ThrowNoRetriever(rec) ==
  [rec EXCEPT !.pc = "thrown",
              !.fallbackError = NoRetrieversMsg,
              !.message = CompositeMessage(rec.primaryError, NoRetrieversMsg)]

\* The catch block of the primary attempt, up to the fallback call.
\*   index.js: createChain(fallbackLLM) throws when there is no retriever.
\*   rag_service.js: the fallback chain needs no retriever.
CatchPrimary(im, rec, stores) ==
  IF im = "index" /\ ~HasRetriever(stores)
    THEN ThrowNoRetriever(rec)
    ELSE [rec EXCEPT !.pc = "fallback"]

PrimaryAttemptRetrying(im, rec, label, llmUsed, chainSet, stores, out) ==
  IF out.ok THEN ReturnPrimary(rec, label, llmUsed, out)
  ELSE [rec EXCEPT !.primary = label]

\* The primary attempt of invokeWithFallback with the outcome `out` of the
\* provider call.  index.js calls this.chain.invoke: with this.chain null the
\* call itself throws (a TypeError) and no provider is reached.
PrimaryAttempt(im, rec, label, llmUsed, chainSet, stores, out) ==
  IF im = "index" /\ ~chainSet
    THEN CatchPrimary(im, [rec EXCEPT !.primary = label,
                                      !.primaryError = NullChainMsg], stores)
  ELSE IF out.ok THEN ReturnPrimary(rec, label, llmUsed, out)
  ELSE CatchPrimary(im, [rec EXCEPT !.primary = label,
                                    !.primaryError = out.msg,
                                    !.calls = Append(@, Call(llmUsed, out))], stores)

FallbackAttemptRetrying(rec, out) ==
  IF out.ok THEN ReturnFallback(rec, out) ELSE NewInvocation

\* The fallback attempt with the outcome `out` of the provider call.
FallbackAttempt(rec, out) ==
  IF out.ok THEN ReturnFallback(rec, out) ELSE ThrowBoth(rec, out)

GenerateFollowUpQuestionsNoCatch(rec) ==
  IF rec.pc = "thrown" THEN Throw ELSE ParseQuestions(rec.answer)
\* generateFollowUpQuestions, from the completed invocation on: the outer
\* try/catch turns every exception into [].
GenerateFollowUpQuestions(rec) ==
  IF rec.pc = "thrown" THEN Value(<<>>)
  ELSE IF ParseQuestions(rec.answer).thrown THEN Value(<<>>)
  ELSE ParseQuestions(rec.answer)

GenerateFinalAnswerSwallow(rec) ==
  [thrown |-> FALSE, answer |-> rec.answer, provider |-> rec.provider,
   message |-> <<>>]
\* generateFinalAnswer, from the completed invocation on: {answer, provider},
\* or the error rethrown.
GenerateFinalAnswer(rec) ==
  IF rec.pc = "thrown"
    THEN [thrown |-> TRUE, answer |-> NoAnswer, provider |-> "none",
          message |-> rec.message]
    ELSE [thrown |-> FALSE, answer |-> rec.answer, provider |-> rec.provider,
          message |-> <<>>]


(***************************************************************************)
(* What a query returns.                                                   *)
(***************************************************************************)
NoResponse ==
  [status |-> "none", http |-> 0, provider |-> "none", answer |-> NoAnswer,
   details |-> <<>>, sources |-> <<>>, hops |-> <<>>]

\* allResults.map((doc) => doc.metadata).
Metadata(results) ==
  [i \in 1..Len(results) |->
     [documentId |-> results[i].documentId, chunkIndex |-> results[i].chunkIndex]]

MultiHopResultCountingQueries(im, final, qn, initial, followUps, additional, all) ==
  IF im = "rag_service"
    THEN [answer |-> final.answer, provider |-> final.provider,
          sources |-> Metadata(all),
          hops |-> <<[hop |-> 1, queries |-> <<qn>>, results |-> Len(initial)],
                     [hop |-> 2, queries |-> followUps, results |-> Len(followUps)]>>]
    ELSE [answer |-> final.answer, provider |-> final.provider,
          sources |-> <<>>, hops |-> <<>>]

\* The value multiHopQuery returns once generateFinalAnswer has returned.
\*   rag_service.js: answer, sources, provider and the two hop records.
\*   index.js: the value of generateFinalAnswer alone.
MultiHopResult(im, final, qn, initial, followUps, additional, all) ==
  IF im = "rag_service"
    THEN [answer |-> final.answer, provider |-> final.provider,
          sources |-> Metadata(all),
          hops |-> <<[hop |-> 1, queries |-> <<qn>>, results |-> Len(initial)],
                     [hop |-> 2, queries |-> followUps, results |-> Len(additional)]>>]
    ELSE [answer |-> final.answer, provider |-> final.provider,
          sources |-> <<>>, hops |-> <<>>]

\* What the caller of query() gets: res.json(result) or the 500 answer of
\* POST /api/query; the resolved value or the rejection for a direct caller.
QueryResponse(how, thrown, result, message) ==
  IF thrown
    THEN [NoResponse EXCEPT !.status = "error",
                            !.http = IF how = "route" THEN 500 ELSE 0,
                            !.details = message]
    ELSE [status |-> "ok", http |-> IF how = "route" THEN 200 ELSE 0,
          provider |-> result.provider, answer |-> result.answer,
          details |-> <<>>, sources |-> result.sources, hops |-> result.hops]

\* The 400 answer of POST /api/query.
Rejected ==
  [NoResponse EXCEPT !.status = "rejected", !.http = 400,
                     !.details = <<"Question is required">>]

(***************************************************************************)
(* State.                                                                  *)
(***************************************************************************)
VARIABLES
  impl,               \* which RAGService class runs: "index" or "rag_service"
  env,                \* process.env: OPENAI_API_KEY (set or not), LLM_PROVIDER
  envChanges,         \* modifications of process.env since startup
  llm,                \* this.llm, the provider chosen by initializeLLM
  primaryProvider,    \* this.primaryProvider (index.js)
  vectorStores,       \* this.vectorStores: TRUE is a loaded store, FALSE is null
  chain,              \* this.chain (index.js) is set; this.retrievalChain likewise
  ready,              \* this.ready (index.js) / this.isInitialized (rag_service.js)
  initPc,             \* position of the startup (initializeVectorStores / initialize)
  upload,             \* position of the addDocuments call in progress
  qpc,                \* stage of the query in progress
  entry,              \* how the query was started: "route" or "direct"
  question,           \* its question
  initialResults,     \* locals of multiHopQuery
  followUpQuestions,
  fuIdx,              \* follow-up questions whose retrieval has returned
  additionalResults,
  allResults,
  inv,                \* the invokeWithFallback call in progress or just completed
  invStage,           \* which call it is: "followup" or "final"
  response,           \* what the caller of the query got
  retrievalCalls,     \* performRetrieval calls of the query in progress
  lastRetrieval,      \* the performRetrieval call that has just returned
  firstAttempted,     \* providers some invokeWithFallback call tried first
  call                \* a call of one method on its own: arguments and result

vars ==
  <<call, impl, env, envChanges, llm, primaryProvider, vectorStores, chain, ready,
    initPc, upload, qpc, entry, question, initialResults, followUpQuestions,
    fuIdx, additionalResults, allResults, inv, invStage, response,
    retrievalCalls, lastRetrieval, firstAttempted>>

serviceVars == <<llm, primaryProvider, vectorStores, chain, ready, initPc, upload>>
queryVars ==
  <<qpc, entry, question, initialResults, followUpQuestions, fuIdx,
    additionalResults, allResults, inv, invStage, response, retrievalCalls,
    lastRetrieval, firstAttempted>>

NoStores == [c \in CollSet |-> FALSE]
NoRetrieval == [docOut |-> NotCalled, transOut |-> NotCalled, results |-> <<>>]
Idle == [pc |-> "idle", coll |-> "none"]
NoCall == [pc |-> "none"]

\* State after `new RAGService()`.
\*   index.js: the constructor runs initializeLLM and starts
\*   initializeVectorStores, which is then awaiting fs.ensureDir.
\*   rag_service.js: the constructor only sets fields to null.
Constructed ==
  /\ impl \in Impls
  /\ env \in [OPENAI_API_KEY : BOOLEAN, LLM_PROVIDER : Providers]
  /\ impl = "index" => env.OPENAI_API_KEY
  /\ impl = "rag_service" => env.LLM_PROVIDER = "openai"
  /\ envChanges = 0
  /\ llm = IF impl = "index" THEN env.LLM_PROVIDER ELSE "null"
  /\ primaryProvider = IF impl = "index" THEN env.LLM_PROVIDER ELSE "none"
  /\ vectorStores = NoStores
  /\ chain = FALSE
  /\ ready = FALSE
  /\ initPc = IF impl = "index" THEN "ensureDir" ELSE "new"
  /\ upload = Idle
  /\ qpc = "idle"
  /\ entry = "none"
  /\ question = "none"
  /\ initialResults = <<>>
  /\ followUpQuestions = <<>>
  /\ fuIdx = 0
  /\ additionalResults = <<>>
  /\ allResults = <<>>
  /\ inv = NoInvocation
  /\ invStage = "none"
  /\ response = NoResponse
  /\ retrievalCalls = 0
  /\ lastRetrieval = NoRetrieval
  /\ firstAttempted = {}

Init == Constructed /\ call = NoCall

(***************************************************************************)
(* Environment.                                                            *)
(***************************************************************************)
\* process.env.OPENAI_API_KEY is set or deleted while the process runs.
\* rag_service.js reads it in every invokeWithFallback call; index.js reads
\* process.env only while the module loads, so a later change is not a step
\* of its model.
EnvChange ==
  /\ impl = "rag_service"
  /\ envChanges < MaxEnvChanges
  /\ envChanges' = envChanges + 1
  /\ env' = [env EXCEPT !.OPENAI_API_KEY = ~@]
  /\ UNCHANGED <<call, impl, serviceVars, queryVars>>

(***************************************************************************)
(* Startup.                                                                *)
(***************************************************************************)
\* setupChain.
\*   index.js: returns without a chain when getRetriever() is null.
\*   rag_service.js: this.retrievalChain = await this.createChain(this.llm).
SetupChain(im, stores, old) ==
  IF im = "rag_service" \/ HasRetriever(stores) THEN TRUE ELSE old

\* index.js initializeVectorStores: the two fs.ensureDir calls return, or one
\* throws and the catch block logs it, leaving the service not ready.
InitEnsureDir ==
  /\ impl = "index" /\ initPc = "ensureDir"
  /\ \E ok \in BOOLEAN : initPc' = IF ok THEN "loadDocuments" ELSE "failed"
  /\ UNCHANGED <<call, impl, env, envChanges, llm, primaryProvider, vectorStores,
                 chain, ready, upload, queryVars>>

\* rag_service.js initialize(), called by the test-suite runner:
\* initializeLLM picks this.llm from OPENAI_API_KEY.
InitLLM ==
  /\ impl = "rag_service" /\ initPc = "new"
  /\ llm' = IF env.OPENAI_API_KEY THEN "openai" ELSE "ollama"
  /\ initPc' = "loadDocuments"
  /\ UNCHANGED <<call, impl, env, envChanges, primaryProvider, vectorStores, chain,
                 ready, upload, queryVars>>

\* A store is loaded from disk (TRUE), or there is none (null).
\*   index.js loadOrCreateStore catches every error and returns null.
\*   rag_service.js rethrows a failed HNSWLib.load: initialize() rejects.
InitLoad(c, here, next) ==
  /\ initPc = here
  /\ \E outcome \in {"store", "null", "throw"} :
       /\ outcome = "throw" => impl = "rag_service"
       /\ vectorStores' = [vectorStores EXCEPT ![c] = (outcome = "store")]
       /\ initPc' = IF outcome = "throw" THEN "failed" ELSE next
  /\ UNCHANGED <<call, impl, env, envChanges, llm, primaryProvider, chain, ready,
                 upload, queryVars>>

InitLoadDocuments == InitLoad("documents", "loadDocuments", "loadTranscriptions")
InitLoadTranscriptions == InitLoad("transcriptions", "loadTranscriptions", "setupChain")

\* await this.setupChain(); this.ready = true (this.isInitialized = true).
InitSetupChain ==
  /\ initPc = "setupChain"
  /\ chain' = SetupChain(impl, vectorStores, chain)
  /\ ready' = TRUE
  /\ initPc' = "done"
  /\ UNCHANGED <<call, impl, env, envChanges, llm, primaryProvider, vectorStores,
                 upload, queryVars>>

(***************************************************************************)
(* addDocuments of index.js (POST /api/upload).                            *)
(***************************************************************************)
\* The call passes the ready check, reads and splits the file; the chunks are
\* added to the store of the collection, or the first upload creates it.
\* Any of these can throw, which ends addDocuments.
UploadStore(c) ==
  /\ impl = "index" /\ ready /\ upload.pc = "idle"
  /\ \E ok \in BOOLEAN :
       /\ vectorStores' = IF ok THEN [vectorStores EXCEPT ![c] = TRUE]
                                ELSE vectorStores
       /\ upload' = IF ok THEN [pc |-> "save", coll |-> c] ELSE Idle
  /\ UNCHANGED <<call, impl, env, envChanges, llm, primaryProvider, chain, ready,
                 initPc, queryVars>>

\* await this.vectorStores[storeType].save(dbPath): a throw ends addDocuments
\* before setupChain.
UploadSave ==
  /\ upload.pc = "save"
  /\ \E ok \in BOOLEAN :
       upload' = IF ok THEN [upload EXCEPT !.pc = "setupChain"] ELSE Idle
  /\ UNCHANGED <<call, impl, env, envChanges, llm, primaryProvider, vectorStores,
                 chain, ready, initPc, queryVars>>

\* await this.setupChain(): the chain is rebuilt over the stores.
UploadSetupChain ==
  /\ upload.pc = "setupChain"
  /\ chain' = SetupChain(impl, vectorStores, chain)
  /\ upload' = Idle
  /\ UNCHANGED <<call, impl, env, envChanges, llm, primaryProvider, vectorStores,
                 ready, initPc, queryVars>>


(***************************************************************************)
(* One query: query() -> multiHopQuery().                                  *)
(***************************************************************************)
AtRest == qpc \in {"idle", "DONE", "FAILED"}

\* query(question): multiHopQuery starts its first performRetrieval.
StartQuery(how, qn) ==
  /\ qpc' = "INITIAL_RETRIEVAL"
  /\ entry' = how
  /\ question' = qn
  /\ initialResults' = <<>>
  /\ followUpQuestions' = <<>>
  /\ fuIdx' = 0
  /\ additionalResults' = <<>>
  /\ allResults' = <<>>
  /\ inv' = NoInvocation
  /\ invStage' = "none"
  /\ response' = NoResponse
  /\ retrievalCalls' = 0
  /\ lastRetrieval' = NoRetrieval

\* The handler of POST /api/query answers 400 for a falsy question.
RouteRejects(qn) == IsFalsy(qn)

\* POST /api/query (index.js).
PostQuery(qn) ==
  /\ impl = "index" /\ AtRest
  /\ IF RouteRejects(qn)
       THEN /\ qpc' = "idle"
            /\ entry' = "route"
            /\ question' = qn
            /\ initialResults' = <<>>
            /\ followUpQuestions' = <<>>
            /\ fuIdx' = 0
            /\ additionalResults' = <<>>
            /\ allResults' = <<>>
            /\ inv' = NoInvocation
            /\ invStage' = "none"
            /\ response' = Rejected
            /\ retrievalCalls' = 0
            /\ lastRetrieval' = NoRetrieval
       ELSE StartQuery("route", qn)
  /\ UNCHANGED <<call, impl, env, envChanges, serviceVars, firstAttempted>>

\* ragService.query(question) called directly: by runEvaluation behind
\* GET /api/evaluate with a question of its qa_dataset, none of them empty
\* (index.js), and by the test-suite runner, once initialize() has returned,
\* with the question field of an entry of test_questions.json, whatever that
\* file holds (rag_service.js).
DirectQuery(qn) ==
  /\ AtRest
  /\ impl = "rag_service" => initPc = "done"
  /\ impl = "index" => ~IsFalsy(qn)
  /\ StartQuery("direct", qn)
  /\ UNCHANGED <<call, impl, env, envChanges, serviceVars, firstAttempted>>

\* Hop 1: performRetrieval(question, 15) returns; generateFollowUpQuestions
\* starts its invokeWithFallback call.
Hop1 ==
  /\ qpc = "INITIAL_RETRIEVAL"
  /\ \E docOut \in SourceOutcomes("documents", vectorStores["documents"]),
        transOut \in SourceOutcomes("transcriptions", vectorStores["transcriptions"]) :
       /\ initialResults' = PerformRetrieval(vectorStores, docOut, transOut, InitialK)
       /\ lastRetrieval' =
            [docOut |-> docOut, transOut |-> transOut,
             results |-> PerformRetrieval(vectorStores, docOut, transOut, InitialK)]
  /\ retrievalCalls' = retrievalCalls + 1
  /\ qpc' = "FOLLOWUP_SYNTHESIS"
  /\ inv' = NewInvocation
  /\ invStage' = "followup"
  /\ UNCHANGED <<call, impl, env, envChanges, serviceVars, entry, question,
                 followUpQuestions, fuIdx, additionalResults, allResults,
                 response, firstAttempted>>

\* The caller's code after its invokeWithFallback call has returned or thrown.
\*   followup: the response is parsed; the hop-2 loop starts.
\*   final: multiHopQuery and query return, or the error reaches the caller.
AfterInvocation(rec) ==
  /\ inv' = rec
  /\ IF rec.pc \notin {"returned", "thrown"}
       THEN UNCHANGED <<qpc, followUpQuestions, response>>
     ELSE IF invStage = "followup"
       THEN IF GenerateFollowUpQuestions(rec).thrown
              THEN /\ qpc' = "FAILED"
                   /\ followUpQuestions' = <<>>
                   /\ response' = QueryResponse(entry, TRUE, NoResponse, rec.message)
              ELSE /\ qpc' = "SECONDARY_RETRIEVAL"
                   /\ followUpQuestions' = GenerateFollowUpQuestions(rec).value
                   /\ response' = response
     ELSE LET final == GenerateFinalAnswer(rec)
          IN /\ qpc' = IF final.thrown THEN "FAILED" ELSE "DONE"
             /\ followUpQuestions' = followUpQuestions
             /\ response' =
                  QueryResponse(entry, final.thrown,
                                MultiHopResult(impl, final, question, initialResults,
                                               followUpQuestions, additionalResults,
                                               allResults),
                                final.message)

\* invokeWithFallback: the primary attempt.
InvokePrimary ==
  /\ qpc \in {"FOLLOWUP_SYNTHESIS", "GENERATE_FINAL"}
  /\ inv.pc = "primary"
  /\ \E out \in ProviderOutcomes(IF invStage = "final" THEN FinalAnswers ELSE Answers) :
       AfterInvocation(PrimaryAttempt(impl, inv,
                                      PrimaryLabel(impl, env, primaryProvider),
                                      PrimaryLLM(impl, env, llm),
                                      chain, vectorStores, out))
  /\ firstAttempted' = firstAttempted \cup {PrimaryLabel(impl, env, primaryProvider)}
  /\ lastRetrieval' = NoRetrieval
  /\ UNCHANGED <<call, impl, env, envChanges, serviceVars, entry, question,
                 initialResults, fuIdx, additionalResults, allResults, invStage,
                 retrievalCalls>>

\* invokeWithFallback: the fallback attempt.
InvokeFallback ==
  /\ qpc \in {"FOLLOWUP_SYNTHESIS", "GENERATE_FINAL"}
  /\ inv.pc = "fallback"
  /\ \E out \in ProviderOutcomes(IF invStage = "final" THEN FinalAnswers ELSE Answers) :
       AfterInvocation(FallbackAttempt(inv, out))
  /\ UNCHANGED <<call, impl, env, envChanges, serviceVars, entry, question,
                 initialResults, fuIdx, additionalResults, allResults, invStage,
                 retrievalCalls, lastRetrieval, firstAttempted>>

\* Hop 2: performRetrieval(followUp, 8) of the next follow-up question returns.
Hop2 ==
  /\ qpc = "SECONDARY_RETRIEVAL"
  /\ fuIdx < Len(followUpQuestions)
  /\ \E docOut \in SourceOutcomes("documents", vectorStores["documents"]),
        transOut \in SourceOutcomes("transcriptions", vectorStores["transcriptions"]) :
       /\ additionalResults' =
            additionalResults \o PerformRetrieval(vectorStores, docOut, transOut, FollowUpK)
       /\ lastRetrieval' =
            [docOut |-> docOut, transOut |-> transOut,
             results |-> PerformRetrieval(vectorStores, docOut, transOut, FollowUpK)]
  /\ fuIdx' = fuIdx + 1
  /\ retrievalCalls' = retrievalCalls + 1
  /\ inv' = NoInvocation
  /\ UNCHANGED <<call, impl, env, envChanges, serviceVars, qpc, entry, question,
                 initialResults, followUpQuestions, allResults, invStage,
                 response, firstAttempted>>

MergeSkippingFinal ==
  /\ qpc = "SECONDARY_RETRIEVAL"
  /\ fuIdx = Len(followUpQuestions)
  /\ allResults' = DeduplicateResults(impl, initialResults \o additionalResults)
  /\ qpc' = "DONE"
  /\ inv' = NewInvocation
  /\ invStage' = "final"
  /\ lastRetrieval' = NoRetrieval
  /\ UNCHANGED <<call, impl, env, envChanges, serviceVars, entry, question,
                 initialResults, followUpQuestions, fuIdx, additionalResults,
                 response, retrievalCalls, firstAttempted>>

MergeWithoutHopOne ==
  /\ qpc = "SECONDARY_RETRIEVAL"
  /\ fuIdx = Len(followUpQuestions)
  /\ allResults' = DeduplicateResults(impl, additionalResults)
  /\ qpc' = "GENERATE_FINAL"
  /\ inv' = NewInvocation
  /\ invStage' = "final"
  /\ lastRetrieval' = NoRetrieval
  /\ UNCHANGED <<call, impl, env, envChanges, serviceVars, entry, question,
                 initialResults, followUpQuestions, fuIdx, additionalResults,
                 response, retrievalCalls, firstAttempted>>

MergeBeforeJoin ==
  /\ qpc = "SECONDARY_RETRIEVAL"
  /\ allResults' = DeduplicateResults(impl, initialResults \o additionalResults)
  /\ qpc' = "GENERATE_FINAL"
  /\ inv' = NewInvocation
  /\ invStage' = "final"
  /\ lastRetrieval' = NoRetrieval
  /\ UNCHANGED <<call, impl, env, envChanges, serviceVars, entry, question,
                 initialResults, followUpQuestions, fuIdx, additionalResults,
                 response, retrievalCalls, firstAttempted>>

\* The loop is over: deduplicateResults([...initialResults,
\* ...additionalResults]); generateFinalAnswer starts its invokeWithFallback.
Merge ==
  /\ qpc = "SECONDARY_RETRIEVAL"
  /\ fuIdx = Len(followUpQuestions)
  /\ allResults' = DeduplicateResults(impl, initialResults \o additionalResults)
  /\ qpc' = "GENERATE_FINAL"
  /\ inv' = NewInvocation
  /\ invStage' = "final"
  /\ lastRetrieval' = NoRetrieval
  /\ UNCHANGED <<call, impl, env, envChanges, serviceVars, entry, question,
                 initialResults, followUpQuestions, fuIdx, additionalResults,
                 response, retrievalCalls, firstAttempted>>

Next ==
  \/ EnvChange
  \/ InitEnsureDir
  \/ InitLLM
  \/ InitLoadDocuments
  \/ InitLoadTranscriptions
  \/ InitSetupChain
  \/ \E c \in CollSet : UploadStore(c)
  \/ UploadSave
  \/ UploadSetupChain
  \/ \E qn \in Questions : PostQuery(qn)
  \/ \E qn \in Questions : DirectQuery(qn)
  \/ Hop1
  \/ InvokePrimary
  \/ InvokeFallback
  \/ Hop2
  \/ Merge

Spec == Init /\ [][Next]_vars

\* Every source call and every provider call a query awaits eventually
\* returns or fails, and the code between two awaits runs to the next one.
FairSpec ==
  /\ Init /\ [][Next]_vars
  /\ WF_vars(Hop1)
  /\ WF_vars(InvokePrimary)
  /\ WF_vars(InvokeFallback)
  /\ WF_vars(Hop2)
  /\ WF_vars(Merge)


(***************************************************************************)
(* deduplicateResults on its own: the call with every list of stored       *)
(* chunks up to MaxResults entries, and the call on its own result.        *)
(***************************************************************************)
\* A text longer than the key prefix: the character h repeated KeyPrefixLen
\* times, then the character r.
LongText(h, r) == [i \in 1..KeyPrefixLen |-> h] \o <<r>>

\* Chunks of two uploaded documents as the implementation w stores them.
\* The two chunks of d1 begin with the same KeyPrefixLen characters (a
\* repeated heading); d2 is a second upload of the file of d1, chunk 0.
StoredChunks(w) ==
  {Chunk("documents", "d1", 0, LongText("h", "x"), w),
   Chunk("documents", "d1", 1, LongText("h", "y"), w),
   Chunk("documents", "d2", 0, LongText("h", "x"), w),
   Chunk("documents", "d2", 1, <<"s">>, w)}

\* The lists [...initialResults, ...additionalResults] can be: chunks of the
\* stores of one writer, with repetitions, in any order.
ResultLists ==
  UNION {[1..n -> StoredChunks(w)] : n \in 0..MaxResults, w \in Writers}

InitDedup ==
  /\ Constructed
  /\ call \in [pc : {"called"}, results : ResultLists, unique : {<<>>},
               again : {<<>>}]

\* allResults = this.deduplicateResults(results).
DedupReturn ==
  /\ call.pc = "called"
  /\ call' = [call EXCEPT !.pc = "returned",
                          !.unique = DeduplicateResults(impl, call.results)]
  /\ UNCHANGED <<impl, env, envChanges, serviceVars, queryVars>>

\* this.deduplicateResults(allResults), the call on its own result.
DedupAgain ==
  /\ call.pc = "returned"
  /\ call' = [call EXCEPT !.pc = "again",
                          !.again = DeduplicateResults(impl, call.unique)]
  /\ UNCHANGED <<impl, env, envChanges, serviceVars, queryVars>>

NextDedup ==
  \/ DedupReturn
  \/ DedupAgain

SpecDedup == InitDedup /\ [][NextDedup]_vars


(***************************************************************************)
(* truncateDocuments on its own: the call with every list of up to MaxDocs *)
(* passages of up to MaxTextLen characters and every pair of budgets.      *)
(***************************************************************************)
\* A text of n characters.
Text(n) == [i \in 1..n |-> IF i % 2 = 1 THEN "a" ELSE "b"]

\* Lists of passages: the passage at position i is the chunk i of a document.
DocumentLists ==
  UNION {{[i \in 1..n |-> Chunk("documents", "d1", i, Text(len[i]), "index")] :
            len \in [1..n -> 0..MaxTextLen]} : n \in 0..MaxDocs}

InitTruncate ==
  /\ Constructed
  /\ call \in [pc : {"called"}, documents : DocumentLists,
               maxCharsPerDoc : 0..MaxPerDoc, maxTotalChars : 0..MaxTotal,
               truncatedDocs : {<<>>}]

\* truncatedDocs = this.truncateDocuments(documents, maxCharsPerDoc,
\* maxTotalChars).
TruncateReturn ==
  /\ call.pc = "called"
  /\ call' = [call EXCEPT !.pc = "returned",
                          !.truncatedDocs =
                             TruncateDocuments(call.documents, call.maxCharsPerDoc,
                                               call.maxTotalChars)]
  /\ UNCHANGED <<impl, env, envChanges, serviceVars, queryVars>>

NextTruncate == TruncateReturn

SpecTruncate == InitTruncate /\ [][NextTruncate]_vars


(***************************************************************************)
(* generateFollowUpQuestions on its own, from the end of its               *)
(* invokeWithFallback call on, followed by the hop-2 loop of multiHopQuery *)
(* over the questions it returned.                                         *)
(***************************************************************************)
\* Responses to the follow-up prompt: JSON arrays and texts of up to MaxMixed
\* elements or lines of any kinds and of up to MaxItems of one kind, JSON
\* values that are not arrays (a number; a string holding a question), and
\* a response without text.
ParseAnswers ==
  {[kind |-> "array", items |-> l] :
     l \in UNION {[1..n -> ItemTypes] : n \in 0..MaxMixed}}
    \cup {[kind |-> "array", items |-> Repeat("string", n)] : n \in 0..MaxItems}
    \cup {[kind |-> "text", items |-> l] :
            l \in UNION {[1..n -> SegmentKinds] : n \in 0..MaxMixed}}
    \cup {[kind |-> "text", items |-> Repeat(k, n)] :
            k \in SegmentKinds, n \in 0..MaxItems}
    \cup {[kind |-> "json", items |-> l] : l \in {<<>>, <<"quoted">>}}
    \cup {[kind |-> "undefined", items |-> <<>>]}

\* The invokeWithFallback call of generateFollowUpQuestions has returned a
\* response, or has thrown because both providers failed.
InitFollowUp ==
  /\ Constructed
  /\ call \in [pc : {"called"}, outcome : {"returned"}, answer : ParseAnswers,
               questions : {<<>>}, queries : {<<>>}]
             \cup [pc : {"called"}, outcome : {"thrown"}, answer : {NoAnswer},
                   questions : {<<>>}, queries : {<<>>}]

\* followUpQuestions = await this.generateFollowUpQuestions(..).
FollowUpReturn ==
  /\ call.pc = "called"
  /\ LET r == GenerateFollowUpQuestions(
                [NoInvocation EXCEPT !.pc = call.outcome, !.answer = call.answer])
     IN call' = [call EXCEPT !.pc = IF r.thrown THEN "threw" ELSE "returned",
                             !.questions = r.value]
  /\ UNCHANGED <<impl, env, envChanges, serviceVars, queryVars>>

\* One turn of the hop-2 loop: performRetrieval(followUp, 8) is called with
\* the next question.
FollowUpRetrieve ==
  /\ call.pc = "returned"
  /\ Len(call.queries) < Len(call.questions)
  /\ call' = [call EXCEPT !.queries =
                             Append(@, call.questions[Len(call.queries) + 1])]
  /\ UNCHANGED <<impl, env, envChanges, serviceVars, queryVars>>

NextFollowUp ==
  \/ FollowUpReturn
  \/ FollowUpRetrieve

SpecFollowUp == InitFollowUp /\ [][NextFollowUp]_vars

(***************************************************************************)
(* performRetrieval on its own: the call with every k up to MaxK, every    *)
(* combination of loaded stores and every answer of the similarity         *)
(* sources over stores in which a file has been uploaded twice.            *)
(***************************************************************************)
\* The chunks of the collection c: a file stored twice (addDocuments gives
\* each upload its own document id and stores the same text again), the
\* same file being in both collections, and one more chunk of another text.
StoredCorpus(c) ==
  {Chunk(c, "d1", 0, <<"a">>, "index"), Chunk(c, "d2", 0, <<"a">>, "index"),
   Chunk(c, "d3", 0, <<IF c = "documents" THEN "b" ELSE "c">>, "index")}

\* The ranked lists store.asRetriever({k}) can answer with: at most k
\* chunks of the collection, none twice, in some order.
RankedLists(c, k) ==
  UNION {{l \in [1..n -> StoredCorpus(c)] : \A i, j \in 1..n : i # j => l[i] # l[j]} :
           n \in 0..Min(k, Cardinality(StoredCorpus(c)))}

\* Answers of the retriever of the collection c.
RetrieverOutcomes(c, loaded, k) ==
  IF loaded
    THEN [status : {"ok"}, list : RankedLists(c, k)] \cup {Fail}
    ELSE {NotCalled}

\* The calls performRetrieval(query, k) with what the sources will answer.
InitRetrieval ==
  /\ Constructed
  /\ \E k \in 1..MaxK, stores \in [CollSet -> BOOLEAN] :
       \E docOut \in RetrieverOutcomes("documents", stores["documents"], k),
          transOut \in RetrieverOutcomes("transcriptions", stores["transcriptions"], k) :
         call = [pc |-> "retrieve", k |-> k, stores |-> stores, docOut |-> docOut,
                 transOut |-> transOut, results |-> <<>>]

\* performRetrieval returns.
RetrievalReturn ==
  /\ call.pc = "retrieve"
  /\ call' = [call EXCEPT !.pc = "retrieved",
                          !.results = PerformRetrieval(call.stores, call.docOut,
                                                       call.transOut, call.k)]
  /\ UNCHANGED <<impl, env, envChanges, serviceVars, queryVars>>

NextRetrieval == RetrievalReturn

SpecRetrieval == InitRetrieval /\ [][NextRetrieval]_vars


(***************************************************************************)
(* The retrieval hops of multiHopQuery at their real sizes: stores that    *)
(* hold more chunks than any k, follow-up responses of up to MaxItems      *)
(* questions.                                                              *)
(***************************************************************************)
\* The n best chunks of the collection c for a query.
TopRanked(c, n) == [i \in 1..n |-> Chunk(c, c, i, <<c, i>>, "index")]

\* The documents source answers with its k best chunks; the transcriptions
\* source answers with its k best chunks, or its call rejects.
FullOutcomes(c, k) ==
  {[status |-> "ok", list |-> TopRanked(c, k)]}
    \cup (IF c = "transcriptions" THEN {Fail} ELSE {})

\* multiHopQuery is called on a service with both stores loaded.
InitHops ==
  /\ Constructed
  /\ call = [pc |-> "hop1", initialResults |-> <<>>, followUpQuestions |-> <<>>,
             fuIdx |-> 0, additionalResults |-> <<>>, allResults |-> <<>>]

\* initialResults = await this.performRetrieval(question, 15).
HopsInitial ==
  /\ call.pc = "hop1"
  /\ \E docOut \in FullOutcomes("documents", InitialK),
        transOut \in FullOutcomes("transcriptions", InitialK) :
       call' = [call EXCEPT
                  !.pc = "synthesis",
                  !.initialResults =
                     PerformRetrieval([c \in CollSet |-> TRUE], docOut, transOut,
                                      InitialK)]
  /\ UNCHANGED <<impl, env, envChanges, serviceVars, queryVars>>

\* followUpQuestions = await this.generateFollowUpQuestions(..), the provider
\* having answered with a JSON array of n question strings.
HopsSynthesis ==
  /\ call.pc = "synthesis"
  /\ \E n \in 0..MaxItems :
       call' = [call EXCEPT
                  !.pc = "hop2",
                  !.followUpQuestions =
                     GenerateFollowUpQuestions(
                       [NoInvocation EXCEPT
                          !.pc = "returned",
                          !.answer = [kind |-> "array",
                                      items |-> Repeat("string", n)]]).value]
  /\ UNCHANGED <<impl, env, envChanges, serviceVars, queryVars>>

\* One turn of the hop-2 loop: additionalResults.push(...results).
HopsFollowUp ==
  /\ call.pc = "hop2"
  /\ call.fuIdx < Len(call.followUpQuestions)
  /\ \E docOut \in FullOutcomes("documents", FollowUpK),
        transOut \in FullOutcomes("transcriptions", FollowUpK) :
       call' = [call EXCEPT
                  !.additionalResults =
                     @ \o PerformRetrieval([c \in CollSet |-> TRUE], docOut,
                                           transOut, FollowUpK),
                  !.fuIdx = @ + 1]
  /\ UNCHANGED <<impl, env, envChanges, serviceVars, queryVars>>

\* The loop is over: deduplicateResults([...initialResults,
\* ...additionalResults]).
HopsMerge ==
  /\ call.pc = "hop2"
  /\ call.fuIdx = Len(call.followUpQuestions)
  /\ call' = [call EXCEPT
                !.pc = "final",
                !.allResults =
                   DeduplicateResults(impl, call.initialResults
                                              \o call.additionalResults)]
  /\ UNCHANGED <<impl, env, envChanges, serviceVars, queryVars>>

NextHops ==
  \/ HopsInitial
  \/ HopsSynthesis
  \/ HopsFollowUp
  \/ HopsMerge

SpecHops == InitHops /\ [][NextHops]_vars

(***************************************************************************)
(* Two calls of query() in flight on one RAGService (two requests to       *)
(* POST /api/query): each call has its own activation frame, the service   *)
(* object is shared.  The frame also remembers the responses its call      *)
(* received from the sources and the providers.                            *)
(***************************************************************************)
Callers == {1, 2}

\* The stores are loaded and the chain is set up: the service serves.
ServingStores == [c \in CollSet |-> TRUE]

\* What the sources answer to one retrieval of a call.
ServingSourceOutcomes ==
  [docOut : {[status |-> "ok", list |-> <<Passage("documents", 0)>>]},
   transOut : [status : {"ok"}, list : SourceLists("transcriptions")]]

\* What a provider does with a prompt of a call.
ServingProviderOutcomes(stage) ==
  {o \in ProviderOutcomes(IF stage = "final" THEN FinalAnswers ELSE Answers) :
     /\ o.msg \in {"none", "timeout"}
     /\ o.answer.kind \in {"array", "text", "none"}
     /\ Len(o.answer.items) <= 1}

\* The frame of a call of query(question) that has reached multiHopQuery.
NewFrame ==
  [qpc |-> "INITIAL_RETRIEVAL", question |-> "q", initialResults |-> <<>>,
   followUpQuestions |-> <<>>, fuIdx |-> 0, additionalResults |-> <<>>,
   allResults |-> <<>>, inv |-> NoInvocation, invStage |-> "none",
   response |-> NoResponse,
   received |-> [hop1 |-> <<>>, followup |-> <<>>, hop2 |-> <<>>, final |-> <<>>]]

FramesSharingEvidence(frames, i, frame) ==
  [j \in Callers |->
     IF j = i THEN frame
     ELSE [frames[j] EXCEPT !.additionalResults = frame.additionalResults]]

\* The variables of multiHopQuery are locals of the call: a step of the
\* call i changes the frame of the call i.
Frames(frames, i, frame) == [frames EXCEPT ![i] = frame]

\* How the caller reaches query(): the route of index.js, the runner of
\* rag_service.js.
ServingEntry == IF impl = "index" THEN "route" ELSE "direct"

\* performRetrieval of the service as it serves.
ServingRetrieval(o, k) == PerformRetrieval(ServingStores, o.docOut, o.transOut, k)

\* The primary attempt of an invokeWithFallback call of the service.
ServingPrimaryAttempt(rec, out) ==
  PrimaryAttempt(impl, rec, PrimaryLabel(impl, env, primaryProvider),
                 PrimaryLLM(impl, env, llm),
                 SetupChain(impl, ServingStores, FALSE), ServingStores, out)

\* The frame once its invokeWithFallback call has got to rec.
FrameAfterInvocation(frame, rec) ==
  IF rec.pc \notin {"returned", "thrown"} THEN [frame EXCEPT !.inv = rec]
  ELSE IF frame.invStage = "followup"
    THEN IF GenerateFollowUpQuestions(rec).thrown
           THEN [frame EXCEPT
                   !.inv = rec, !.qpc = "FAILED",
                   !.response = QueryResponse(ServingEntry, TRUE, NoResponse,
                                              rec.message)]
           ELSE [frame EXCEPT
                   !.inv = rec, !.qpc = "SECONDARY_RETRIEVAL",
                   !.followUpQuestions = GenerateFollowUpQuestions(rec).value]
  ELSE LET final == GenerateFinalAnswer(rec)
       IN [frame EXCEPT
             !.inv = rec,
             !.qpc = IF final.thrown THEN "FAILED" ELSE "DONE",
             !.response =
                QueryResponse(ServingEntry, final.thrown,
                              MultiHopResult(impl, final, frame.question,
                                             frame.initialResults,
                                             frame.followUpQuestions,
                                             frame.additionalResults,
                                             frame.allResults),
                              final.message)]

\* Two requests have been accepted and both calls are about to retrieve.
InitServing ==
  /\ Constructed
  /\ call = [pc |-> "serving", frames |-> [i \in Callers |-> NewFrame]]

\* Hop 1 of the call i: performRetrieval(question, 15) returns.
ServingHop1(i) ==
  /\ call.frames[i].qpc = "INITIAL_RETRIEVAL"
  /\ \E o \in ServingSourceOutcomes :
       call' = [call EXCEPT !.frames =
         Frames(@, i,
                [call.frames[i] EXCEPT
                   !.initialResults = ServingRetrieval(o, InitialK),
                   !.qpc = "FOLLOWUP_SYNTHESIS",
                   !.inv = NewInvocation,
                   !.invStage = "followup",
                   !.received.hop1 = Append(@, o)])]
  /\ UNCHANGED <<impl, env, envChanges, serviceVars, queryVars>>

\* A provider call of the call i returns or fails.
ServingInvoke(i) ==
  /\ call.frames[i].qpc \in {"FOLLOWUP_SYNTHESIS", "GENERATE_FINAL"}
  /\ call.frames[i].inv.pc \in {"primary", "fallback"}
  /\ \E out \in ServingProviderOutcomes(call.frames[i].invStage) :
       LET frame == call.frames[i]
           heard == IF frame.invStage = "followup"
                      THEN [frame EXCEPT !.received.followup = Append(@, out)]
                      ELSE [frame EXCEPT !.received.final = Append(@, out)]
           rec == IF frame.inv.pc = "primary"
                    THEN ServingPrimaryAttempt(frame.inv, out)
                    ELSE FallbackAttempt(frame.inv, out)
       IN call' = [call EXCEPT !.frames =
                     Frames(@, i, FrameAfterInvocation(heard, rec))]
  /\ UNCHANGED <<impl, env, envChanges, serviceVars, queryVars>>

\* One turn of the hop-2 loop of the call i.
ServingHop2(i) ==
  /\ call.frames[i].qpc = "SECONDARY_RETRIEVAL"
  /\ call.frames[i].fuIdx < Len(call.frames[i].followUpQuestions)
  /\ \E o \in ServingSourceOutcomes :
       call' = [call EXCEPT !.frames =
         Frames(@, i,
                [call.frames[i] EXCEPT
                   !.additionalResults = @ \o ServingRetrieval(o, FollowUpK),
                   !.fuIdx = @ + 1,
                   !.received.hop2 = Append(@, o)])]
  /\ UNCHANGED <<impl, env, envChanges, serviceVars, queryVars>>

\* The hop-2 loop of the call i is over: deduplicateResults, and
\* generateFinalAnswer starts its invokeWithFallback call.
ServingMerge(i) ==
  /\ call.frames[i].qpc = "SECONDARY_RETRIEVAL"
  /\ call.frames[i].fuIdx = Len(call.frames[i].followUpQuestions)
  /\ call' = [call EXCEPT !.frames =
       Frames(@, i,
              [call.frames[i] EXCEPT
                 !.allResults =
                    DeduplicateResults(impl, call.frames[i].initialResults
                                               \o call.frames[i].additionalResults),
                 !.qpc = "GENERATE_FINAL",
                 !.inv = NewInvocation,
                 !.invStage = "final"])]
  /\ UNCHANGED <<impl, env, envChanges, serviceVars, queryVars>>

NextServing ==
  \/ \E i \in Callers : ServingHop1(i)
  \/ \E i \in Callers : ServingInvoke(i)
  \/ \E i \in Callers : ServingHop2(i)
  \/ \E i \in Callers : ServingMerge(i)

SpecServing == InitServing /\ [][NextServing]_vars

\* invokeWithFallback run from start to end with the provider responses
\* outs: the primary attempt, then the fallback attempt if it comes to it.
InvokeWithFallback(outs) ==
  LET first == ServingPrimaryAttempt(NewInvocation, outs[1])
  IN IF first.pc = "fallback" THEN FallbackAttempt(first, outs[2]) ELSE first

RECURSIVE RetrieveAll(_)
\* The hop-2 loop run from start to end with the source responses os.
RetrieveAll(os) ==
  IF os = <<>> THEN <<>>
  ELSE ServingRetrieval(Head(os), FollowUpK) \o RetrieveAll(Tail(os))

\* multiHopQuery run on its own from start to end with the responses
\* `received`: what query() gives its caller, with the follow-up list and the
\* deduplicated evidence on the way.
MultiHopQueryAlone(qn, received) ==
  LET initial == ServingRetrieval(received.hop1[1], InitialK)
      followUps == GenerateFollowUpQuestions(InvokeWithFallback(received.followup)).value
      additional == RetrieveAll(received.hop2)
      all == DeduplicateResults(impl, initial \o additional)
      final == GenerateFinalAnswer(InvokeWithFallback(received.final))
  IN [followUpQuestions |-> followUps,
      allResults |-> all,
      response |-> QueryResponse(ServingEntry, final.thrown,
                                 MultiHopResult(impl, final, qn, initial, followUps,
                                                additional, all),
                                 final.message)]

(***************************************************************************)
(* The evaluation run (runEvaluation behind GET /api/evaluate, on the      *)
(* service of index.js) and the test-suite run (runTestSuite, on the       *)
(* service of rag_service.js): the loop over the questions, with every     *)
(* list of up to MaxQuestions questions and every outcome of each query.   *)
(***************************************************************************)
\* The criteria evaluateAnswer tests an answer for.
Criteria ==
  {"CS-043", "CD-100 or Responsivity", "Primary staff handling",
   "Avoids hallucination", "Grievance fallback", "Cites sources",
   "No unrelated policy"}

\* What ragService.query(question) does for the loop: it resolves with an
\* answer (a text meeting some of the criteria, or no text), or rejects.
RunOutcomes ==
  [ok : {TRUE}, answer : {"text", "undefined"},
   met : {{}, {"Avoids hallucination", "No unrelated policy"}, Criteria},
   msg : {"none"}]
    \cup [ok : {FALSE}, answer : {"none"}, met : {{}}, msg : ErrMsgs]

\* evaluateAnswer(answer): the score is the number of criteria met; an
\* answer that is not a non-empty string scores 0 and carries an Error.
EvaluateAnswer(answer, met) ==
  IF answer # "text"
    THEN [score |-> 0, error |-> "Invalid or empty answer provided."]
    ELSE [score |-> Cardinality(met), error |-> "none"]

ResultEntryDroppingErrors(questionAsked, outcome) ==
  IF outcome.ok
    THEN <<[question |-> questionAsked, answer |-> outcome.answer,
            score |-> IF impl = "index"
                        THEN EvaluateAnswer(outcome.answer, outcome.met).score
                        ELSE 0,
            error |-> IF impl = "index"
                        THEN EvaluateAnswer(outcome.answer, outcome.met).error
                        ELSE "none"]>>
    ELSE <<>>

\* The entries one turn of the loop pushes for the question asked.
\*   runEvaluation: {question, answer, ...evaluateAnswer(answer)}, or in the
\*     catch block the entry with "Error during generation.", Total Score 0
\*     and Error: error.message.
\*   runTestSuite: the entry with the answer, or in the catch block the
\*     entry with error: error.message; it keeps no score.
ResultEntry(questionAsked, outcome) ==
  IF outcome.ok
    THEN <<[question |-> questionAsked, answer |-> outcome.answer,
            score |-> IF impl = "index"
                        THEN EvaluateAnswer(outcome.answer, outcome.met).score
                        ELSE 0,
            error |-> IF impl = "index"
                        THEN EvaluateAnswer(outcome.answer, outcome.met).error
                        ELSE "none"]>>
    ELSE <<[question |-> questionAsked,
            answer |-> IF impl = "index" THEN "Error during generation."
                       ELSE "none",
            score |-> 0, error |-> outcome.msg]>>

\* The run starts on its list of questions.
InitRun ==
  /\ Constructed
  /\ \E n \in 0..MaxQuestions :
       \E questions \in [1..n -> {"q", "r"}] :
         call = [pc |-> "running", questions |-> questions, outcomes |-> <<>>,
                 results |-> <<>>]

\* One turn of the loop: the query of the next question resolves or rejects
\* and the turn pushes its entry.
RunQuery ==
  /\ call.pc = "running"
  /\ Len(call.outcomes) < Len(call.questions)
  /\ \E outcome \in RunOutcomes :
       call' = [call EXCEPT
                  !.outcomes = Append(@, outcome),
                  !.results =
                     @ \o ResultEntry(call.questions[Len(call.outcomes) + 1],
                                      outcome)]
  /\ UNCHANGED <<impl, env, envChanges, serviceVars, queryVars>>

\* The loop is over: the run returns its results.
RunReturn ==
  /\ call.pc = "running"
  /\ Len(call.outcomes) = Len(call.questions)
  /\ call' = [call EXCEPT !.pc = "returned"]
  /\ UNCHANGED <<impl, env, envChanges, serviceVars, queryVars>>

NextRun ==
  \/ RunQuery
  \/ RunReturn

SpecRun == InitRun /\ [][NextRun]_vars

(***************************************************************************)
(* The two prompt budgets of multiHopQuery on passages held by reference:  *)
(* heap is the collection of passage objects, a reference is a position in *)
(* it, and every list of multiHopQuery is a list of references.            *)
(***************************************************************************)
\* The lengths of the stored passages: within both per-passage budgets,
\* longer than that of the follow-up prompt only, and longer than both.
PassageLengths == {FollowUpPerDoc - 100, FollowUpPerDoc + 100, FinalPerDoc + 100}

\* The passage objects the references of a list point to.
Deref(heap, refs) == [i \in 1..Len(refs) |-> heap[refs[i]]]

TruncateOnHeapInPlace(heap, refs, maxCharsPerDoc, maxTotalChars) ==
  LET truncatedDocs ==
        TruncateDocuments(Deref(heap, refs), maxCharsPerDoc, maxTotalChars)
      kept == 1..Len(truncatedDocs)
  IN [heap |-> [r \in 1..Len(heap) |->
                  IF \E i \in kept : refs[i] = r
                    THEN truncatedDocs[CHOOSE i \in kept : refs[i] = r]
                    ELSE heap[r]],
      docs |-> SubSeq(refs, 1, Len(truncatedDocs))]
\* truncateDocuments(documents, maxCharsPerDoc, maxTotalChars) on references:
\* every passage kept is pushed as a new object ({...doc, pageContent}), and
\* the objects of the input are read only.
TruncateOnHeap(heap, refs, maxCharsPerDoc, maxTotalChars) ==
  LET truncatedDocs ==
        TruncateDocuments(Deref(heap, refs), maxCharsPerDoc, maxTotalChars)
  IN [heap |-> heap \o truncatedDocs,
      docs |-> [i \in 1..Len(truncatedDocs) |-> Len(heap) + i]]

\* deduplicateResults(results) on references: filter keeps the objects
\* themselves.
RECURSIVE DedupRefsFrom(_, _, _, _)
DedupRefsFrom(im, heap, refs, seen) ==
  IF refs = <<>> THEN <<>>
  ELSE IF DedupKey(im, heap[Head(refs)]) \in seen
    THEN DedupRefsFrom(im, heap, Tail(refs), seen)
  ELSE <<Head(refs)>>
         \o DedupRefsFrom(im, heap, Tail(refs),
                          seen \cup {DedupKey(im, heap[Head(refs)])})

\* The passages of the two hops: n passages of the initial retrieval, chunk
\* i of its own document, all of one length, and m of the follow-up
\* retrievals, all of one length, which start with the first chunk of the
\* initial retrieval found again when again is set.  Every retrieval returns
\* objects of its own.
HopOnePassages(n, length, w) ==
  [i \in 1..n |-> Chunk("documents", i, i, Text(length), w)]
HopTwoPassages(n, m, first, length, w, again) ==
  [j \in 1..m |->
     IF again /\ j = 1 /\ n > 0
       THEN Chunk("documents", 1, 1, Text(first), w)
       ELSE Chunk("documents", n + j, n + j, Text(length), w)]

InitBudget ==
  /\ Constructed
  /\ \E n \in 0..MaxInitial, m \in 0..MaxAdditional, w \in Writers,
        again \in BOOLEAN, one \in PassageLengths, two \in PassageLengths :
       /\ n = 0 => one = FollowUpPerDoc - 100
       /\ m = 0 => two = FollowUpPerDoc - 100 /\ ~again
       /\ call = [pc |-> "INITIAL_RETRIEVAL",
                   heap |-> HopOnePassages(n, one, w)
                              \o HopTwoPassages(n, m, one, two, w, again),
                   hopOne |-> n, hopTwo |-> m,
                   initialResults |-> <<>>, followUpPrompt |-> <<>>,
                   additionalResults |-> <<>>, allResults |-> <<>>,
                   finalPrompt |-> <<>>, sources |-> <<>>]

\* initialResults = await this.performRetrieval(question, 15).
BudgetHop1 ==
  /\ call.pc = "INITIAL_RETRIEVAL"
  /\ call' = [call EXCEPT !.pc = "FOLLOWUP_SYNTHESIS",
                          !.initialResults = [i \in 1..call.hopOne |-> i]]
  /\ UNCHANGED <<impl, env, envChanges, serviceVars, queryVars>>

\* generateFollowUpQuestions: truncatedResults =
\* this.truncateDocuments(initialResults, 1500, 6000).
BudgetFollowUp ==
  /\ call.pc = "FOLLOWUP_SYNTHESIS"
  /\ LET r == TruncateOnHeap(call.heap, call.initialResults,
                             FollowUpPerDoc, FollowUpTotal)
     IN call' = [call EXCEPT !.pc = "SECONDARY_RETRIEVAL",
                             !.heap = r.heap, !.followUpPrompt = r.docs]
  /\ UNCHANGED <<impl, env, envChanges, serviceVars, queryVars>>

\* The loop over the follow-up questions: additionalResults.push(...results).
BudgetHop2 ==
  /\ call.pc = "SECONDARY_RETRIEVAL"
  /\ call' = [call EXCEPT
                !.pc = "MERGE",
                !.additionalResults =
                   [j \in 1..call.hopTwo |-> call.hopOne + j]]
  /\ UNCHANGED <<impl, env, envChanges, serviceVars, queryVars>>

\* allResults = this.deduplicateResults([...initialResults,
\* ...additionalResults]).
BudgetMerge ==
  /\ call.pc = "MERGE"
  /\ call' = [call EXCEPT
                !.pc = "GENERATE_FINAL",
                !.allResults =
                   DedupRefsFrom(impl, call.heap,
                                 call.initialResults \o call.additionalResults,
                                 {})]
  /\ UNCHANGED <<impl, env, envChanges, serviceVars, queryVars>>

\* generateFinalAnswer: truncatedResults =
\* this.truncateDocuments(allResults, 2000, 10000).
BudgetFinal ==
  /\ call.pc = "GENERATE_FINAL"
  /\ LET r == TruncateOnHeap(call.heap, call.allResults, FinalPerDoc, FinalTotal)
     IN call' = [call EXCEPT !.pc = "RETURN",
                             !.heap = r.heap, !.finalPrompt = r.docs]
  /\ UNCHANGED <<impl, env, envChanges, serviceVars, queryVars>>

\* The return of multiHopQuery: sources is allResults.map((doc) =>
\* doc.metadata) in rag_service.js.
BudgetReturn ==
  /\ call.pc = "RETURN"
  /\ LET all == Deref(call.heap, call.allResults)
         result == MultiHopResult(impl, [answer |-> NoAnswer, provider |-> "openai"],
                                  "q", Deref(call.heap, call.initialResults), <<>>,
                                  Deref(call.heap, call.additionalResults), all)
     IN call' = [call EXCEPT !.pc = "DONE", !.sources = result.sources]
  /\ UNCHANGED <<impl, env, envChanges, serviceVars, queryVars>>

NextBudget ==
  \/ BudgetHop1
  \/ BudgetFollowUp
  \/ BudgetHop2
  \/ BudgetMerge
  \/ BudgetFinal
  \/ BudgetReturn

SpecBudget == InitBudget /\ [][NextBudget]_vars


(***************************************************************************)
(* initialize() of rag_service.js with two callers: every await is a point *)
(* where the other caller can run.  call.frames[i].pc is the position of   *)
(* the caller i, call.performed counts the steps the instance has run.     *)
(***************************************************************************)
NotPerformed == [llm |-> 0, stores |-> 0, chain |-> 0]

InitInitialize ==
  /\ Constructed
  /\ impl = "rag_service"
  /\ call = [pc |-> "initialize", frames |-> [i \in Callers |-> "idle"],
             performed |-> NotPerformed]

\* initialize() is called: it returns at once when this.isInitialized is
\* set; else initializeLLM() runs (it is synchronous) and the call awaits.
InitializeCall(i) ==
  /\ call.frames[i] = "idle"
  /\ IF ready
       THEN /\ call' = [call EXCEPT !.frames[i] = "returned"]
            /\ UNCHANGED llm
       ELSE /\ llm' = IF env.OPENAI_API_KEY THEN "openai" ELSE "ollama"
            /\ call' = [call EXCEPT !.frames[i] = "initializeLLM",
                                    !.performed.llm = @ + 1]
  /\ UNCHANGED <<impl, env, envChanges, primaryProvider, vectorStores, chain,
                 ready, initPc, upload, queryVars>>

\* await this.initializeVectorStores(): the call enters the method and
\* awaits the load of the documents store (or finds no directory).
InitializeStores(i) ==
  /\ call.frames[i] = "initializeLLM"
  /\ call' = [call EXCEPT !.frames[i] = "loadDocuments",
                          !.performed.stores = @ + 1]
  /\ UNCHANGED <<impl, env, envChanges, serviceVars, queryVars>>

\* this.vectorStores[c] = await HNSWLib.load(path, this.embeddings) when the
\* directory exists: the store is assigned, or the load throws and
\* initialize() rejects; without a directory the field is left as it is.
InitializeLoad(i, c, here, next) ==
  /\ call.frames[i] = here
  /\ \E outcome \in {"store", "nodir", "throw"} :
       /\ vectorStores' = IF outcome = "store"
                            THEN [vectorStores EXCEPT ![c] = TRUE]
                            ELSE vectorStores
       /\ call' = [call EXCEPT
                     !.frames[i] = IF outcome = "throw" THEN "thrown" ELSE next]
  /\ UNCHANGED <<impl, env, envChanges, llm, primaryProvider, chain, ready,
                 initPc, upload, queryVars>>

InitializeLoadDocuments(i) ==
  InitializeLoad(i, "documents", "loadDocuments", "loadTranscriptions")
InitializeLoadTranscriptions(i) ==
  InitializeLoad(i, "transcriptions", "loadTranscriptions", "setupChain")

\* await this.setupChain(): this.retrievalChain = await this.createChain().
InitializeSetupChain(i) ==
  /\ call.frames[i] = "setupChain"
  /\ chain' = SetupChain(impl, vectorStores, chain)
  /\ call' = [call EXCEPT !.frames[i] = "awaitChain",
                          !.performed.chain = @ + 1]
  /\ UNCHANGED <<impl, env, envChanges, llm, primaryProvider, vectorStores,
                 ready, initPc, upload, queryVars>>

\* this.isInitialized = true, and initialize() returns.
InitializeReturn(i) ==
  /\ call.frames[i] = "awaitChain"
  /\ ready' = TRUE
  /\ call' = [call EXCEPT !.frames[i] = "returned"]
  /\ UNCHANGED <<impl, env, envChanges, llm, primaryProvider, vectorStores,
                 chain, initPc, upload, queryVars>>

NextInitialize ==
  \/ EnvChange
  \/ \E i \in Callers : InitializeCall(i)
  \/ \E i \in Callers : InitializeStores(i)
  \/ \E i \in Callers : InitializeLoadDocuments(i)
  \/ \E i \in Callers : InitializeLoadTranscriptions(i)
  \/ \E i \in Callers : InitializeSetupChain(i)
  \/ \E i \in Callers : InitializeReturn(i)

SpecInitialize == InitInitialize /\ [][NextInitialize]_vars


(***************************************************************************)
(* addDocuments with two callers, from construction on: every await is a   *)
(* point where the other caller can run.  A store object is named by its   *)
(* collection and by who made it: 0 the initialization (loaded from disk), *)
(* i the fromDocuments call of the caller i.  call.field[c] names the      *)
(* object this.vectorStores[c] refers to when it is not null, and          *)
(* call.chunks[c, k] the callers whose chunks the object k of c holds.     *)
(***************************************************************************)
Makers == {0} \cup Callers
NotCalling == [pc |-> "idle", coll |-> "none", target |-> 0, msg |-> "none"]
NotReadyMsg == "RAGService not ready. Please wait for initialization to complete."

InitUpload ==
  /\ Constructed
  /\ call = [pc |-> "addDocuments", frames |-> [i \in Callers |-> NotCalling],
             field |-> [c \in CollSet |-> 0],
             chunks |-> [o \in CollSet \X Makers |-> {}]]

\* The call of the caller i ends with the error msg.
AddDocumentsThrow(i, msg) ==
  [call EXCEPT !.frames[i].pc = "thrown", !.frames[i].msg = msg]

AddDocumentsCallUnchecked(i, c) ==
  /\ call.frames[i].pc = "idle"
  /\ impl = "rag_service" => initPc = "done"
  /\ call' = [call EXCEPT !.frames[i].pc = "extractTextFromFile",
                          !.frames[i].coll = c]
  /\ UNCHANGED <<impl, env, envChanges, serviceVars, queryVars>>
\* addDocuments(filePath, documentId, metadata) is called for the collection
\* c.  index.js throws when this.ready is false; rag_service.js, which has
\* no such check, is called once initialize() has returned.  The call then
\* awaits extractTextFromFile.
AddDocumentsCall(i, c) ==
  /\ call.frames[i].pc = "idle"
  /\ impl = "rag_service" => initPc = "done"
  /\ call' = IF impl = "index" /\ ~ready
               THEN [AddDocumentsThrow(i, NotReadyMsg) EXCEPT !.frames[i].coll = c]
               ELSE [call EXCEPT !.frames[i].pc = "extractTextFromFile",
                                 !.frames[i].coll = c]
  /\ UNCHANGED <<impl, env, envChanges, serviceVars, queryVars>>

\* The text is extracted and split, or that throws.  The call then reads
\* this.vectorStores[storeType]: it starts addDocuments on the object the
\* field refers to, or HNSWLib.fromDocuments when the field is null.
AddDocumentsSplit(i) ==
  /\ call.frames[i].pc = "extractTextFromFile"
  /\ \E ok \in BOOLEAN :
       call' = IF ~ok THEN AddDocumentsThrow(i, "extract")
               ELSE IF vectorStores[call.frames[i].coll]
                 THEN [call EXCEPT !.frames[i].pc = "addDocuments",
                                   !.frames[i].target = call.field[call.frames[i].coll]]
                 ELSE [call EXCEPT !.frames[i].pc = "fromDocuments"]
  /\ UNCHANGED <<impl, env, envChanges, serviceVars, queryVars>>

\* await store.addDocuments(documents) returns: the chunks are in the object
\* the call started on; or it throws.
AddDocumentsAdd(i) ==
  /\ call.frames[i].pc = "addDocuments"
  /\ \E ok \in BOOLEAN :
       call' = IF ok
                 THEN [call EXCEPT
                         !.frames[i].pc = "save",
                         !.chunks[<<call.frames[i].coll, call.frames[i].target>>] =
                            @ \cup {i}]
                 ELSE AddDocumentsThrow(i, "addDocuments")
  /\ UNCHANGED <<impl, env, envChanges, serviceVars, queryVars>>

\* this.vectorStores[storeType] = await HNSWLib.fromDocuments(documents,
\* embeddings) returns: the field is assigned the new object, which holds the
\* chunks of this call; or fromDocuments throws.
AddDocumentsCreate(i) ==
  /\ call.frames[i].pc = "fromDocuments"
  /\ \E ok \in BOOLEAN :
       LET c == call.frames[i].coll IN
       /\ call' = IF ok
                    THEN [call EXCEPT !.frames[i].pc = "save",
                                      !.field[c] = i, !.chunks[<<c, i>>] = {i}]
                    ELSE AddDocumentsThrow(i, "fromDocuments")
       /\ vectorStores' = IF ok THEN [vectorStores EXCEPT ![c] = TRUE]
                                ELSE vectorStores
  /\ UNCHANGED <<impl, env, envChanges, llm, primaryProvider, chain, ready,
                 initPc, upload, queryVars>>

\* await this.vectorStores[storeType].save(dbPath) returns or throws;
\* rag_service.js then returns documents.length.
AddDocumentsSave(i) ==
  /\ call.frames[i].pc = "save"
  /\ \E ok \in BOOLEAN :
       call' = IF ~ok THEN AddDocumentsThrow(i, "save")
               ELSE [call EXCEPT !.frames[i].pc =
                       IF impl = "index" THEN "setupChain" ELSE "returned"]
  /\ UNCHANGED <<impl, env, envChanges, serviceVars, queryVars>>

\* index.js: await this.setupChain(), then {success: true, chunks}.
AddDocumentsSetupChain(i) ==
  /\ call.frames[i].pc = "setupChain"
  /\ chain' = SetupChain(impl, vectorStores, chain)
  /\ call' = [call EXCEPT !.frames[i].pc = "returned"]
  /\ UNCHANGED <<impl, env, envChanges, llm, primaryProvider, vectorStores,
                 ready, initPc, upload, queryVars>>

NextUpload ==
  \/ InitEnsureDir
  \/ InitLLM
  \/ InitLoadDocuments
  \/ InitLoadTranscriptions
  \/ InitSetupChain
  \/ \E i \in Callers, c \in CollSet : AddDocumentsCall(i, c)
  \/ \E i \in Callers : AddDocumentsSplit(i)
  \/ \E i \in Callers : AddDocumentsAdd(i)
  \/ \E i \in Callers : AddDocumentsCreate(i)
  \/ \E i \in Callers : AddDocumentsSave(i)
  \/ \E i \in Callers : AddDocumentsSetupChain(i)

SpecUpload == InitUpload /\ [][NextUpload]_vars


(***************************************************************************)
(* Properties.                                                             *)
(***************************************************************************)
\* The invokeWithFallback call has started its primary attempt.
Started == inv.pc \in {"fallback", "returned", "thrown"}
\* The invokeWithFallback call has returned or thrown.
Completed == inv.pc \in {"returned", "thrown"}
\* Calls the invocation made to the provider p.
CallsTo(p) == {i \in 1..Len(inv.calls) : inv.calls[i].provider = p}
\* The fallback provider has been invoked: its call is in flight or logged.
SecondaryInvoked == inv.pc = "fallback" \/ CallsTo(FallbackLLM(inv.primary)) # {}
\* A call to the primary provider was made and raised an error.
PrimaryCallFailed ==
  \E i \in CallsTo(inv.primary) : ~inv.calls[i].ok
PrimaryCallSucceeded ==
  \E i \in CallsTo(inv.primary) : inv.calls[i].ok
InMessage(m) == \E i \in 1..Len(inv.message) : inv.message[i] = m

\* C1: in invokeWithFallback the secondary provider is invoked if and only if
\* the call to the primary provider raised an error: never after a primary
\* call that succeeded, and never without a primary call that was made and
\* failed.
C1_FailoverIffPrimaryCallFailed ==
  Started =>
    /\ PrimaryCallSucceeded => ~SecondaryInvoked
    /\ SecondaryInvoked => PrimaryCallFailed

\* C2: the provider a successful query reports is the provider whose call
\* produced the final answer: the primary when its call succeeded, the
\* secondary when the primary call failed and the secondary call succeeded,
\* never a provider whose call failed in that invocation.
C2_ProviderIsTheOneThatAnswered ==
  response.status = "ok" =>
    /\ invStage = "final" /\ inv.pc = "returned" /\ inv.calls # <<>>
    /\ inv.calls[Len(inv.calls)].ok
    /\ response.provider = inv.calls[Len(inv.calls)].provider
    /\ PrimaryCallSucceeded => response.provider = inv.primary
    /\ PrimaryCallFailed => response.provider = FallbackLLM(inv.primary)
    /\ \A i \in 1..Len(inv.calls) :
         ~inv.calls[i].ok => inv.calls[i].provider # response.provider

\* A query answered by the secondary provider after the primary call failed.
C2_Witness ==
  /\ response.status = "ok"
  /\ Len(inv.calls) = 2
  /\ ~inv.calls[1].ok
  /\ response.provider = inv.calls[2].provider

\* C3: when both provider calls of one invocation fail, the invocation throws
\* one error whose message contains the message of the primary failure and
\* the message of the secondary failure; when only the primary call fails and
\* the secondary call succeeds, it returns without an error.
C3_CompositeErrorNamesBothFailures ==
  Completed =>
    /\ (Len(inv.calls) = 2 /\ ~inv.calls[1].ok /\ ~inv.calls[2].ok) =>
         /\ inv.pc = "thrown"
         /\ InMessage(inv.calls[1].msg)
         /\ InMessage(inv.calls[2].msg)
    /\ (Len(inv.calls) = 2 /\ ~inv.calls[1].ok /\ inv.calls[2].ok) =>
         /\ inv.pc = "returned"
         /\ inv.message = <<>>

\* Both calls failed, with different messages.
C3_Witness ==
  /\ inv.pc = "thrown"
  /\ Len(inv.calls) = 2
  /\ inv.calls[1].msg # inv.calls[2].msg

\* C4: one invocation calls the primary provider exactly once and the
\* secondary at most once, never the same provider twice, at most two calls.
C4_OneAttemptPerProvider ==
  Completed =>
    /\ Cardinality(CallsTo(inv.primary)) = 1
    /\ Cardinality(CallsTo(FallbackLLM(inv.primary))) <= 1
    /\ Len(inv.calls) <= 2

\* C5: every invokeWithFallback call of the process tries the same provider
\* first, whatever happens to the environment after startup.
C5_SamePrimaryForEveryInvocation ==
  Cardinality(firstAttempted) <= 1

\* C6: when both providers fail in the final generation the query fails with
\* an error that reaches the caller (500 on POST /api/query), and a query
\* that succeeds carries the answer of a provider call that succeeded.
C6_TotalFailureIsFatal ==
  /\ (invStage = "final" /\ inv.pc = "thrown") =>
       /\ qpc = "FAILED"
       /\ response.status = "error"
       /\ response.details = inv.message
       /\ entry = "route" => response.http = 500
  /\ response.status = "ok" =>
       /\ invStage = "final" /\ inv.calls # <<>>
       /\ inv.calls[Len(inv.calls)].ok
       /\ response.answer = inv.calls[Len(inv.calls)].answer

\* POST /api/query answered 500 after both provider calls failed.
C6_Witness ==
  /\ response.status = "error" /\ response.http = 500
  /\ invStage = "final"
  /\ Len(inv.calls) = 2 /\ ~inv.calls[1].ok /\ ~inv.calls[2].ok

\* C7: a query ends with an error only when both providers failed in the
\* final generation or when the question is empty or missing.
C7_OnlyTotalFailureOrInvalidInputFail ==
  response.status \in {"error", "rejected"} =>
    \/ IsFalsy(question)
    \/ /\ invStage = "final"
       /\ Len(inv.calls) = 2 /\ ~inv.calls[1].ok /\ ~inv.calls[2].ok

\* The response of a follow-up synthesis that yields no question text.
Unparseable(answer) ==
  answer.kind = "undefined" \/ (answer.kind = "text" /\ answer.items = <<>>)

\* C8: a follow-up synthesis that fails completely (both providers fail, or
\* the response cannot be parsed into questions) gives an empty follow-up list
\* and never an error; the query goes on to merge the hop-1 evidence alone.
C8_FollowUpFailureDegrades ==
  /\ (invStage = "followup" /\ Completed) =>
       /\ qpc = "SECONDARY_RETRIEVAL"
       /\ response.status = "none"
       /\ (inv.pc = "thrown" \/ Unparseable(inv.answer)) => followUpQuestions = <<>>
  /\ (qpc = "GENERATE_FINAL" /\ followUpQuestions = <<>>) =>
       /\ additionalResults = <<>>
       /\ allResults = DeduplicateResults(impl, initialResults)

\* Both providers failed in the follow-up synthesis of a query with hop-1
\* evidence, and the query is about to merge.
C8_Witness ==
  /\ invStage = "followup" /\ inv.pc = "thrown"
  /\ Len(inv.calls) = 2
  /\ initialResults # <<>>
  /\ qpc = "SECONDARY_RETRIEVAL" /\ followUpQuestions = <<>>

\* The passages of the list l all occur in the list r.
AllIn(l, r) == \A i \in 1..Len(l) : \E j \in 1..Len(r) : r[j] = l[i]

\* C9: in one retrieval round a failed similarity source counts as zero
\* passages from that source only: the passages the other source returned are
\* in the result of the round.
C9_SourceFailureIsLocal ==
  /\ (lastRetrieval.docOut.status = "fail" /\ lastRetrieval.transOut.status = "ok") =>
       AllIn(lastRetrieval.transOut.list, lastRetrieval.results)
  /\ (lastRetrieval.transOut.status = "fail" /\ lastRetrieval.docOut.status = "ok") =>
       AllIn(lastRetrieval.docOut.list, lastRetrieval.results)

\* C10: an empty or missing question is rejected before any retrieval or
\* provider call, however the query was started.
C10_EmptyQuestionRejectedFirst ==
  IsFalsy(question) =>
    /\ retrievalCalls = 0
    /\ inv.calls = <<>>
    /\ response.status # "ok"

\* The identity of a passage: its document and its chunk number.
Identity(p) == <<p.documentId, p.chunkIndex>>
\* Positions of l holding the first occurrence of an identity.
FirstOccurrences(l) ==
  {i \in 1..Len(l) : \A j \in 1..(i - 1) : Identity(l[j]) # Identity(l[i])}
\* The k-th smallest element of the set of numbers S.
Nth(S, k) == CHOOSE i \in S : Cardinality({j \in S : j <= i}) = k
\* The entries of l at the positions in S, in the order of l.
AtPositions(l, S) == [k \in 1..Cardinality(S) |-> l[Nth(S, k)]]

\* C11: deduplicateResults returns the subsequence of its input made of the
\* first occurrence of each identity (documentId, chunkIndex), in input
\* order: nothing added, no identity twice, one passage for each identity.
C11_DedupKeepsFirstOccurrences ==
  call.pc = "returned" =>
    call.unique = AtPositions(call.results, FirstOccurrences(call.results))

\* C12: deduplicateResults removes a passage only when an earlier passage of
\* the input has the same (documentId, chunkIndex): a passage whose pair
\* differs from the pair of every earlier passage is in the result, whatever
\* its text and whichever addDocuments stored it.
C12_DedupRemovesOnlyIdentityCollisions ==
  call.pc = "returned" =>
    \A i \in FirstOccurrences(call.results) :
      \E k \in 1..Len(call.unique) : call.unique[k] = call.results[i]

\* C13: deduplicateResults applied to its own result returns that result.
C13_DedupIdempotent ==
  call.pc = "again" => call.again = call.unique

\* The second call has returned for an input that lost a duplicate and kept
\* two passages.
C13_Witness ==
  /\ call.pc = "again"
  /\ Len(call.unique) = 2
  /\ Len(call.results) = 3

\* Sum of the text lengths of the passages of l.
RECURSIVE TotalLength(_)
TotalLength(l) ==
  IF l = <<>> THEN 0 ELSE Len(Head(l).pageContent) + TotalLength(Tail(l))

\* C14: the text lengths of the passages truncateDocuments returns add up to
\* at most maxTotalChars, for every list and every pair of budgets.
C14_TotalWithinBudget ==
  call.pc = "returned" =>
    TotalLength(call.truncatedDocs) <= call.maxTotalChars

\* Three passages were returned, one of them cut, filling the budget exactly.
C14_Witness ==
  /\ call.pc = "returned"
  /\ Len(call.truncatedDocs) = 3
  /\ TotalLength(call.truncatedDocs) = call.maxTotalChars
  /\ \E i \in 1..3 : Len(call.documents[i].pageContent) > call.maxCharsPerDoc

\* The text t ends with the truncation marker.
EndsWithMarker(t) ==
  /\ Len(t) >= Len(TruncationMarker)
  /\ SubSeq(t, Len(t) - Len(TruncationMarker) + 1, Len(t)) = TruncationMarker

\* C15: a returned passage has at most maxCharsPerDoc characters plus the
\* marker; the marker is appended exactly when the original text was longer
\* than maxCharsPerDoc, after its first maxCharsPerDoc characters; a text that
\* is not longer is returned unchanged.
C15_PerPassageBound ==
  call.pc = "returned" =>
    \A i \in 1..Len(call.truncatedDocs) :
      LET original == call.documents[i].pageContent
          returned == call.truncatedDocs[i].pageContent
      IN /\ Len(returned) <= call.maxCharsPerDoc + Len(TruncationMarker)
         /\ Len(original) > call.maxCharsPerDoc =>
              /\ EndsWithMarker(returned)
              /\ Len(returned) = call.maxCharsPerDoc + Len(TruncationMarker)
              /\ SubSeq(returned, 1, call.maxCharsPerDoc)
                   = SubSeq(original, 1, call.maxCharsPerDoc)
         /\ Len(original) <= call.maxCharsPerDoc => returned = original

\* A cut passage and an uncut passage with text were both returned.
C15_Witness ==
  /\ call.pc = "returned"
  /\ \E i, j \in 1..Len(call.truncatedDocs) :
       /\ Len(call.documents[i].pageContent) > call.maxCharsPerDoc
       /\ call.maxCharsPerDoc > 0
       /\ Len(call.documents[j].pageContent) <= call.maxCharsPerDoc
       /\ Len(call.documents[j].pageContent) > 0

\* C16: the passages truncateDocuments returns are the first passages of the
\* input, in order; it stops at the first passage whose truncated text would
\* take the total above maxTotalChars and accepts no passage after it.
C16_GreedyPrefix ==
  call.pc = "returned" =>
    LET n == Len(call.truncatedDocs)
    IN /\ n <= Len(call.documents)
       /\ \A i \in 1..n :
            /\ call.truncatedDocs[i].documentId = call.documents[i].documentId
            /\ call.truncatedDocs[i].chunkIndex = call.documents[i].chunkIndex
       /\ n < Len(call.documents) =>
            TotalLength(call.truncatedDocs)
              + Len(TruncatedContent(call.documents[n + 1].pageContent,
                                     call.maxCharsPerDoc))
              > call.maxTotalChars

\* The call stopped at the second passage although the third would have fit.
C16_Witness ==
  /\ call.pc = "returned"
  /\ Len(call.documents) = 3
  /\ Len(call.truncatedDocs) = 1
  /\ TotalLength(call.truncatedDocs)
       + Len(TruncatedContent(call.documents[3].pageContent, call.maxCharsPerDoc))
       <= call.maxTotalChars

\* C17: generateFollowUpQuestions returns at most 8 questions, whether they
\* come from a JSON array or from one of the text patterns.
C17_AtMostEightFollowUps ==
  /\ call.pc = "returned" => Len(call.questions) <= 8
  /\ Len(call.queries) <= 8

\* Eight questions were returned from a text of more than eight questions.
C17_Witness ==
  /\ call.pc = "returned"
  /\ call.answer.kind = "text"
  /\ Len(call.answer.items) > 8
  /\ Len(call.questions) = 8

\* The questions read at the lines of the given kinds, at most 8 of them.
QuestionsAt(items, kinds) ==
  LET at == {i \in 1..Len(items) : items[i] \in kinds}
  IN [k \in 1..Min(8, Cardinality(at)) |-> FollowUp(Nth(at, k))]

\* C18: the response is parsed in priority order: a JSON array gives its
\* elements; otherwise the quoted questions are extracted; when there is
\* none, every sentence ending in a question mark; the list is empty only
\* when all three find nothing, so never for a response holding a question.
C18_ParsePriorityOrder ==
  call.pc = "returned" /\ call.outcome = "returned" =>
    LET items == call.answer.items
    IN IF call.answer.kind = "array"
         THEN Len(call.questions) = Min(8, Len(items))
       ELSE IF \E i \in 1..Len(items) : items[i] = "quoted"
         THEN call.questions = QuestionsAt(items, {"quoted"})
       ELSE call.questions = QuestionsAt(items, {"numbered", "quoted", "plain"})

\* The value q is a question string.
IsQuestionString(q) == q[1] = "followup"

\* C19: every element of the list generateFollowUpQuestions returns is a
\* question string, and so is every query of a hop-2 retrieval.
C19_FollowUpsAreStrings ==
  /\ \A i \in 1..Len(call.questions) : IsQuestionString(call.questions[i])
  /\ \A i \in 1..Len(call.queries) : IsQuestionString(call.queries[i])

\* C20: a successful query returns the answer, the provider used, the
\* evidence list (the metadata of every passage of the deduplicated evidence
\* set, in order) and the hop trace; the evidence list is empty only when no
\* passage was retrieved, and the hop trace is not empty, hop 1 having run.
C20_CompleteAnswerResult ==
  response.status = "ok" =>
    /\ response.answer = inv.answer
    /\ response.provider \in Providers
    /\ Len(response.sources) = Len(allResults)
    /\ \A i \in 1..Len(allResults) :
         /\ response.sources[i].documentId = allResults[i].documentId
         /\ response.sources[i].chunkIndex = allResults[i].chunkIndex
    /\ retrievalCalls > 0 => response.hops # <<>>

\* C21: when follow-up synthesis yields no follow-up question, the hop trace
\* of the answer has exactly one entry, the record of hop 1, and no record
\* of hop 2.
C21_NoHopTwoRecordWithoutFollowUps ==
  (qpc = "DONE" /\ response.status = "ok" /\ followUpQuestions = <<>>) =>
    /\ Len(response.hops) = 1
    /\ response.hops[1].hop = 1

\* A step in which one performRetrieval call of the hop-2 loop returns.
FollowUpRetrievalReturns == qpc = "SECONDARY_RETRIEVAL" /\ fuIdx' = fuIdx + 1

\* The records of hop h in the hop trace of the answer.
HopRecords(h) == {i \in 1..Len(response.hops) : response.hops[i].hop = h}

\* C22: in every returned hop trace the count of hop 1 is the number of
\* passages the initial retrieval appended, the count of hop 2 is the sum
\* over the follow-up retrievals of the passages each returned (counted
\* before deduplication), and the record of hop 2 lists the follow-up
\* queries issued, in the order they were issued.
C22_HopCountsAreRetrievalCounts ==
  /\ [](qpc = "DONE" /\ response.status = "ok" =>
          /\ \A i \in HopRecords(1) :
               response.hops[i].results = Len(initialResults)
          /\ \A i \in HopRecords(2) :
               /\ response.hops[i].results = Len(additionalResults)
               /\ response.hops[i].queries = followUpQuestions
               /\ Len(response.hops[i].queries) = fuIdx)
  /\ [][/\ FollowUpRetrievalReturns =>
             Len(additionalResults') =
               Len(additionalResults) + Len(lastRetrieval'.results)
        /\ ~FollowUpRetrievalReturns =>
             additionalResults' \in {additionalResults, <<>>}]_vars

\* A query of rag_service.js has answered after a hop 2 that retrieved more
\* passages than the deduplicated evidence keeps, for two follow-up queries.
C22_Witness ==
  /\ impl = "rag_service" /\ qpc = "DONE" /\ response.status = "ok"
  /\ Len(followUpQuestions) = 2
  /\ Len(additionalResults) > Len(followUpQuestions)
  /\ Len(allResults) < Len(initialResults) + Len(additionalResults)
  /\ HopRecords(1) # {} /\ HopRecords(2) # {}

\* Position of the passage p in the list l, 0 when it is not in it.
PositionIn(l, p) ==
  IF \E i \in 1..Len(l) : l[i] = p THEN CHOOSE i \in 1..Len(l) : l[i] = p ELSE 0

\* C23: performRetrieval(query, k) never returns more than k passages,
\* whether one source or two are configured and whatever the sources answer.
C23_AtMostKPassages ==
  call.pc = "retrieved" => Len(call.results) <= call.k

\* Both sources answered, with more than k passages of different texts
\* between them, and the call returned k passages.
C23_Witness ==
  /\ call.pc = "retrieved"
  /\ call.docOut.status = "ok" /\ call.transOut.status = "ok"
  /\ Len(UniqueUnion(call.docOut.list \o call.transOut.list, {})) > call.k
  /\ Len(call.results) = call.k

\* Both collections have a store and both sources answered with passages.
BothSourcesAnswered ==
  /\ call.stores["documents"] /\ call.stores["transcriptions"]
  /\ call.docOut.status = "ok" /\ call.docOut.list # <<>>
  /\ call.transOut.status = "ok" /\ call.transOut.list # <<>>

\* C24: when both collections return passages, the list performRetrieval
\* returns has the passage the documents source ranked r ahead of the
\* passage the transcriptions source ranked r, for every r, also after the
\* cut to k passages.
C24_DocumentsAheadAtEqualRank ==
  (call.pc = "retrieved" /\ BothSourcesAnswered) =>
    \A r \in 1..Min(Len(call.docOut.list), Len(call.transOut.list)) :
      PositionIn(call.results, call.transOut.list[r]) > 0 =>
        /\ PositionIn(call.results, call.docOut.list[r]) > 0
        /\ PositionIn(call.results, call.docOut.list[r])
             < PositionIn(call.results, call.transOut.list[r])

\* The source of the collection c answered with passages, and the other
\* collection has no store or its source answered with no passage.
OnlySourceWithPassages(c, out, otherOut) ==
  /\ call.stores[c] /\ out.status = "ok" /\ out.list # <<>>
  /\ otherOut.status \in {"notcalled", "ok"} /\ otherOut.list = <<>>

C27_EvidenceBounded ==
  /\ Len(call.initialResults) <= 15
  /\ Len(call.additionalResults) <= 64
  /\ Len(call.initialResults) + Len(call.additionalResults) <= 79
  /\ Len(call.allResults) <= 79

\* Hop 1 brought 15 passages and hop 2 brought 64, and they were merged.
C27_Witness ==
  /\ call.pc = "final"
  /\ Len(call.initialResults) = 15
  /\ Len(call.additionalResults) = 64
  /\ call.allResults # <<>>

\* The stages of a running query, in the order multiHopQuery goes through
\* them; deduplicateResults runs in the step that ends the hop-2 loop.
StageSteps ==
  {<<"INITIAL_RETRIEVAL", "FOLLOWUP_SYNTHESIS">>,
   <<"FOLLOWUP_SYNTHESIS", "SECONDARY_RETRIEVAL">>,
   <<"SECONDARY_RETRIEVAL", "GENERATE_FINAL">>,
   <<"GENERATE_FINAL", "DONE">>}
    \cup {<<s, "FAILED">> : s \in {"INITIAL_RETRIEVAL", "FOLLOWUP_SYNTHESIS",
                                   "SECONDARY_RETRIEVAL", "GENERATE_FINAL"}}

\* C28: a query goes through its stages in the fixed order initial
\* retrieval, follow-up synthesis, secondary retrieval, merge and
\* deduplication, final generation, and ends in DONE or FAILED; a stage
\* starts only when the one before it has completed, none is repeated, and
\* once the query is DONE or FAILED it makes no source or provider call.
C28_StagesInFixedOrder ==
  [][/\ qpc' # qpc =>
          \/ <<qpc, qpc'>> \in StageSteps
          \/ AtRest /\ qpc' \in {"INITIAL_RETRIEVAL", "idle"}
     /\ (qpc = "INITIAL_RETRIEVAL" /\ qpc' = "FOLLOWUP_SYNTHESIS") =>
          retrievalCalls = 0 /\ retrievalCalls' = 1
     /\ (qpc = "FOLLOWUP_SYNTHESIS" /\ qpc' = "SECONDARY_RETRIEVAL") =>
          inv'.pc \in {"returned", "thrown"} /\ retrievalCalls' = 1
     /\ (qpc = "SECONDARY_RETRIEVAL" /\ qpc' = "GENERATE_FINAL") =>
          /\ allResults' = DeduplicateResults(impl, initialResults \o additionalResults)
          /\ inv'.calls = <<>>
     /\ (qpc = "GENERATE_FINAL" /\ qpc' = "DONE") => inv'.pc = "returned"
     /\ (qpc = "GENERATE_FINAL" /\ qpc' = "FAILED") => inv'.pc = "thrown"
     /\ (qpc \in {"DONE", "FAILED"} /\ qpc' = qpc) =>
          retrievalCalls' = retrievalCalls /\ inv' = inv]_vars

\* A query that went through both hops has ended in DONE.
C28_Witness ==
  /\ qpc = "DONE" /\ retrievalCalls > 1 /\ Len(inv.calls) > 0
  /\ fuIdx = Len(followUpQuestions)

\* C29: the secondary retrieval is a barrier.  The merge starts only when
\* the retrieval of every follow-up question has returned, each follow-up
\* having been retrieved once; the hop-2 list holds the passages of each
\* follow-up as one block, appended whole at its end, the blocks standing in
\* the order of the follow-up questions.
C29_SecondaryRetrievalIsBarrier ==
  [][/\ (qpc = "SECONDARY_RETRIEVAL" /\ qpc' # qpc) =>
          /\ fuIdx = Len(followUpQuestions)
          /\ retrievalCalls = 1 + Len(followUpQuestions)
          /\ additionalResults' = additionalResults
     /\ FollowUpRetrievalReturns =>
          /\ fuIdx < Len(followUpQuestions)
          /\ additionalResults' = additionalResults \o lastRetrieval'.results
          /\ retrievalCalls' = retrievalCalls + 1
     /\ (qpc = "SECONDARY_RETRIEVAL" /\ ~FollowUpRetrievalReturns) =>
          fuIdx' = fuIdx \/ qpc' # qpc
     /\ (qpc \in {"GENERATE_FINAL", "DONE", "FAILED"} /\ qpc' # "INITIAL_RETRIEVAL"
           /\ qpc' # "idle") =>
          additionalResults' = additionalResults]_vars

\* The merge has run after two follow-up retrievals that both returned
\* passages.
C29_Witness ==
  /\ qpc = "GENERATE_FINAL"
  /\ Len(followUpQuestions) = 2 /\ fuIdx = 2
  /\ Len(additionalResults) > 2
  /\ allResults # <<>>

\* A query is between its start and its end.
Running ==
  qpc \in {"INITIAL_RETRIEVAL", "FOLLOWUP_SYNTHESIS", "SECONDARY_RETRIEVAL",
           "GENERATE_FINAL"}

\* C30: provided every source call and every provider call eventually
\* returns or fails, every query that has started eventually reaches DONE or
\* FAILED; the hop-2 loop makes one retrieval per follow-up question, and an
\* invocation calls no provider a second time.
C30_EveryQueryTerminates ==
  /\ Running ~> qpc \in {"DONE", "FAILED"}
  /\ [](/\ fuIdx <= Len(followUpQuestions)
        /\ Len(followUpQuestions) <= FollowUpCap
        /\ retrievalCalls <= 1 + Len(followUpQuestions)
        /\ Len(inv.calls) <= 2
        /\ \A i, j \in 1..Len(inv.calls) :
             inv.calls[i].provider = inv.calls[j].provider => i = j)

\* A query has ended after both providers failed in its follow-up synthesis
\* and two calls were made in its final generation.
C30_Witness ==
  /\ qpc \in {"DONE", "FAILED"}
  /\ retrievalCalls > 0
  /\ Len(inv.calls) = 2

\* C26: two queries interleaved on one RAGService are isolated.  Each ends
\* with the follow-up list, the combined evidence, the hop trace, the
\* provider and the answer it would have had running alone with the source
\* and provider responses it received, and a step of one query changes no
\* variable of the other.
C26_ConcurrentQueriesIsolated ==
  /\ [](\A i \in Callers :
          call.frames[i].qpc \in {"DONE", "FAILED"} =>
            LET frame == call.frames[i]
                alone == MultiHopQueryAlone(frame.question, frame.received)
            IN /\ frame.followUpQuestions = alone.followUpQuestions
               /\ frame.allResults = alone.allResults
               /\ frame.response = alone.response)
  /\ [][\A i, j \in Callers :
          (i # j /\ call'.frames[i] # call.frames[i]) =>
            call'.frames[j] = call.frames[j]]_vars

\* Both queries have answered, interleaved, with different follow-up lists
\* and different evidence.
C26_Witness ==
  /\ call.frames[1].qpc = "DONE" /\ call.frames[2].qpc = "DONE"
  /\ call.frames[1].followUpQuestions # call.frames[2].followUpQuestions
  /\ call.frames[1].additionalResults # call.frames[2].additionalResults
  /\ call.frames[1].initialResults # call.frames[2].initialResults
  /\ call.frames[1].response.provider # call.frames[2].response.provider

\* C31: with zero follow-up questions the query is a single-hop query: no
\* secondary retrieval is made, the evidence of the final generation is
\* deduplicateResults of the evidence of hop 1, and the final generation is
\* still invoked and its answer returned.
C31_ZeroFollowUpsIsSingleHop ==
  (qpc \in {"GENERATE_FINAL", "DONE", "FAILED"} /\ invStage = "final"
     /\ followUpQuestions = <<>>) =>
    /\ retrievalCalls = 1
    /\ additionalResults = <<>>
    /\ allResults = DeduplicateResults(impl, initialResults)
    /\ inv.pc # "idle"
    /\ qpc = "DONE" =>
         /\ inv.pc = "returned"
         /\ response.status = "ok"
         /\ response.answer = inv.answer
         /\ response.provider = inv.provider

\* A query without follow-up questions has answered from two passages of
\* hop 1.
C31_Witness ==
  /\ qpc = "DONE" /\ invStage = "final" /\ followUpQuestions = <<>>
  /\ Len(initialResults) = 2
  /\ response.status = "ok"

\* The passages of the list l, as a set.
PassagesOf(l) == {l[i] : i \in 1..Len(l)}

\* C32: the merged evidence keeps hop order.  In the deduplicated evidence
\* every passage of hop 1 precedes every passage seen in hop 2 only, the
\* passages of hop 1 keep the order they had in hop 1, and a passage
\* retrieved in both hops appears once, at its position of hop 1.
C32_MergeKeepsHopOrder ==
  (qpc \in {"GENERATE_FINAL", "DONE", "FAILED"} /\ invStage = "final") =>
    /\ \A i, j \in 1..Len(allResults) :
         (allResults[i] \in PassagesOf(initialResults)
            /\ allResults[j] \notin PassagesOf(initialResults)) => i < j
    /\ \A i, j \in 1..Len(allResults) :
         (i < j /\ allResults[i] \in PassagesOf(initialResults)
            /\ allResults[j] \in PassagesOf(initialResults)) =>
           PositionIn(initialResults, allResults[i])
             < PositionIn(initialResults, allResults[j])
    /\ \A p \in PassagesOf(initialResults) \cap PassagesOf(additionalResults) :
         /\ Cardinality({i \in 1..Len(allResults) : allResults[i] = p}) = 1
         /\ PositionIn(allResults, p) = PositionIn(initialResults, p)

\* The retrieval that has just returned met an error: there was no vector
\* store, or the call of a source rejected.
RetrievalErred ==
  /\ lastRetrieval # NoRetrieval
  /\ \/ \A c \in CollSet : ~vectorStores[c]
     \/ lastRetrieval.docOut.status = "fail"
     \/ lastRetrieval.transOut.status = "fail"

\* C33: performRetrieval never raises.  Every error of a retrieval comes
\* back as an empty list, the query goes on to its next step, and a failed
\* retrieval of one follow-up question neither stops nor alters the
\* retrievals of the follow-up questions after it.
C33_RetrievalErrorsAreEmptyResults ==
  /\ [](RetrievalErred =>
          /\ lastRetrieval.results = <<>>
          /\ qpc \in {"FOLLOWUP_SYNTHESIS", "SECONDARY_RETRIEVAL"})
  /\ [][retrievalCalls' = retrievalCalls + 1 =>
          /\ qpc' = IF qpc = "INITIAL_RETRIEVAL" THEN "FOLLOWUP_SYNTHESIS"
                    ELSE "SECONDARY_RETRIEVAL"
          /\ lastRetrieval'.results =
               PerformRetrieval(vectorStores, lastRetrieval'.docOut,
                                lastRetrieval'.transOut,
                                IF qpc = "INITIAL_RETRIEVAL" THEN InitialK
                                ELSE FollowUpK)
          /\ qpc = "SECONDARY_RETRIEVAL" =>
               /\ fuIdx' = fuIdx + 1
               /\ additionalResults' = additionalResults \o lastRetrieval'.results
               /\ followUpQuestions' = followUpQuestions]_vars
  /\ [][(qpc = "SECONDARY_RETRIEVAL" /\ qpc' = "GENERATE_FINAL") =>
          retrievalCalls = 1 + Len(followUpQuestions)]_vars

\* The retrieval of the first of two follow-up questions failed in one
\* source while the other source had a passage, and the loop goes on.
C33_Witness ==
  /\ qpc = "SECONDARY_RETRIEVAL"
  /\ Len(followUpQuestions) = 2 /\ fuIdx = 1
  /\ lastRetrieval.transOut.status = "fail"
  /\ lastRetrieval.docOut.status = "ok" /\ lastRetrieval.docOut.list # <<>>
  /\ lastRetrieval.results = <<>>

\* C34: the evaluation run and the test-suite run isolate the failure of a
\* question.  For every list of questions and every pattern of failing
\* queries the results hold one entry per question processed, in the order
\* of the questions; a failed query is recorded as an error entry (with
\* Total Score 0 in the evaluation), and the run returns only when every
\* question has its entry.
C34_OneEntryPerQuestion ==
  /\ Len(call.results) = Len(call.outcomes)
  /\ \A i \in 1..Len(call.results) :
       /\ call.results[i].question = call.questions[i]
       /\ ~call.outcomes[i].ok =>
            /\ call.results[i].error = call.outcomes[i].msg
            /\ call.results[i].score = 0
       /\ call.outcomes[i].ok => call.results[i].answer = call.outcomes[i].answer
  /\ call.pc = "returned" => Len(call.results) = Len(call.questions)

\* A run over three questions has returned; the query of its first question
\* failed and a later one succeeded.
C34_Witness ==
  /\ call.pc = "returned"
  /\ Len(call.questions) = 3
  /\ ~call.outcomes[1].ok
  /\ call.outcomes[3].ok
  /\ call.questions[1] # call.questions[3]

\* The call i starts an invokeWithFallback invocation in this step.
InvocationStarts(i) ==
  /\ call'.frames[i].inv.pc = "primary"
  /\ call.frames[i].inv.pc # "primary"

\* C35: a query that reaches its final generation makes exactly two
\* invokeWithFallback invocations, one for the follow-up synthesis and one
\* for the final answer, hence at most four provider calls; it makes one
\* retrieval call more than it has follow-up questions, of which there are
\* at most 8.
C35_InvocationsAndRetrievalsCounted ==
  /\ [](\A i \in Callers :
          LET frame == call.frames[i]
          IN /\ Len(frame.received.followup) <= 2
             /\ Len(frame.received.final) <= 2
             /\ Len(frame.inv.calls) <= 2
             /\ frame.qpc \in {"GENERATE_FINAL", "DONE", "FAILED"} =>
                  /\ Len(frame.received.followup) >= 1
                  /\ Len(frame.received.hop1) = 1
                  /\ Len(frame.received.hop2) = Len(frame.followUpQuestions)
                  /\ Len(frame.followUpQuestions) <= FollowUpCap
             /\ frame.qpc \in {"DONE", "FAILED"} =>
                  /\ Len(frame.received.final) >= 1
                  /\ Len(frame.inv.calls) = Len(frame.received.final))
  /\ [][\A i \in Callers :
          InvocationStarts(i) =>
            \/ /\ call.frames[i].qpc = "INITIAL_RETRIEVAL"
               /\ call'.frames[i].invStage = "followup"
            \/ /\ call.frames[i].qpc = "SECONDARY_RETRIEVAL"
               /\ call.frames[i].invStage = "followup"
               /\ call'.frames[i].invStage = "final"]_vars

\* A query has answered after four provider calls and two retrievals.
C35_Witness ==
  \E i \in Callers :
    /\ call.frames[i].qpc = "DONE"
    /\ Len(call.frames[i].received.followup) = 2
    /\ Len(call.frames[i].received.final) = 2
    /\ Len(call.frames[i].received.hop2) = 1

\* The passage objects the retrievals of the two hops returned.
Retrieved == 1..(call.hopOne + call.hopTwo)
\* The passage at the reference r holds a stored text in full.
FullText(r) ==
  /\ Len(call.heap[r].pageContent) \in PassageLengths
  /\ call.heap[r].pageContent = Text(Len(call.heap[r].pageContent))

\* C36: truncateDocuments leaves the passages it is given unchanged, text
\* and metadata; the passages the follow-up budget shortened or dropped are
\* merged and budgeted for the final prompt with their full text; and the
\* sources returned by rag_service.js list every deduplicated passage, those
\* the final budget cut from the prompt included.
C36_BudgetsLeaveEvidenceAlone ==
  /\ [][\A r \in 1..Len(call.heap) : call'.heap[r] = call.heap[r]]_vars
  /\ [](/\ \A r \in Retrieved : FullText(r)
        /\ \A i \in 1..Len(call.initialResults) : call.initialResults[i] \in Retrieved
        /\ \A i \in 1..Len(call.additionalResults) :
             call.additionalResults[i] \in Retrieved
        /\ \A i \in 1..Len(call.allResults) : call.allResults[i] \in Retrieved
        /\ call.pc \in {"GENERATE_FINAL", "RETURN", "DONE"} =>
             call.allResults =
               DedupRefsFrom(impl, call.heap,
                             call.initialResults \o call.additionalResults, {})
        /\ call.pc \in {"RETURN", "DONE"} =>
             /\ Len(call.finalPrompt) <= Len(call.allResults)
             /\ \A i \in 1..Len(call.finalPrompt) :
                  call.heap[call.finalPrompt[i]] =
                    [call.heap[call.allResults[i]] EXCEPT
                       !.pageContent = TruncatedContent(Text(Len(@)), FinalPerDoc)]
        /\ call.pc = "DONE" /\ impl = "rag_service" =>
             call.sources = Metadata(Deref(call.heap, call.allResults)))

\* A query of rag_service.js has returned the sources of six passages: the
\* follow-up budget had dropped the fourth and shortened the others, and the
\* final prompt holds that fourth passage and drops the last two.
C36_Witness ==
  /\ impl = "rag_service" /\ call.pc = "DONE"
  /\ Len(call.initialResults) = 4 /\ Len(call.followUpPrompt) = 3
  /\ EndsWithMarker(call.heap[call.followUpPrompt[1]].pageContent)
  /\ Len(call.allResults) = 6 /\ Len(call.finalPrompt) = 4
  /\ Len(call.heap[call.finalPrompt[4]].pageContent)
       = FinalPerDoc + Len(TruncationMarker)
  /\ Len(call.sources) = 6

\* The caller i calls initialize() in this step.
InitializeCalled(i) == call.frames[i] = "idle" /\ call'.frames[i] # "idle"

\* C37: initialize() of rag_service.js runs the LLM setup, the loading of the
\* vector stores and the chain setup at most once per instance, and a call
\* made once isInitialized is set changes nothing, however the calls of two
\* callers overlap.
C37_InitializedAtMostOnce ==
  /\ [](/\ call.performed.llm <= 1
        /\ call.performed.stores <= 1
        /\ call.performed.chain <= 1)
  /\ [][\A i \in Callers :
          InitializeCalled(i) /\ ready =>
            /\ UNCHANGED serviceVars
            /\ call'.performed = call.performed]_vars

\* The chunks of the call of the caller i are in the in-memory store of the
\* collection it uploaded to.
InMemory(i) ==
  LET c == call.frames[i].coll
  IN vectorStores[c] /\ i \in call.chunks[<<c, call.field[c]>>]

\* C38: once the addDocuments calls of both callers have returned, the
\* in-memory store of the collection each uploaded to holds its chunks,
\* however the two calls interleaved.
C38_NoAcknowledgedUploadLost ==
  (\A i \in Callers : call.frames[i].pc = "returned") =>
    \A i \in Callers : InMemory(i)

\* The caller i calls addDocuments in this step.
AddDocumentsCalled(i) == call.frames[i].pc = "idle" /\ call'.frames[i].pc # "idle"

\* C39: in index.js ready is set only once initializeVectorStores has loaded
\* both stores and set up the chain without an error, ready is never reset,
\* and an addDocuments call made while ready is false throws and leaves both
\* vector stores as they were.
C39_ReadyGatesIngestion ==
  /\ [](impl = "index" =>
          /\ ready => initPc = "done"
          /\ initPc \in {"ensureDir", "loadDocuments", "loadTranscriptions",
                         "setupChain", "failed"} => ~ready
          /\ \A i \in Callers :
               call.frames[i].pc \notin {"idle", "thrown"} => ready)
  /\ [][impl = "index" =>
          /\ ready => ready'
          /\ \A i \in Callers :
               AddDocumentsCalled(i) /\ ~ready =>
                 /\ call'.frames[i].pc = "thrown"
                 /\ call'.frames[i].msg = NotReadyMsg
                 /\ vectorStores' = vectorStores
                 /\ call'.field = call.field
                 /\ call'.chunks = call.chunks]_vars

\* In index.js an upload was refused while the stores were loading, and an
\* upload made after ready was set has returned.
C39_Witness ==
  /\ impl = "index" /\ ready
  /\ \E i, j \in Callers :
       /\ call.frames[i].pc = "thrown" /\ call.frames[i].msg = NotReadyMsg
       /\ call.frames[j].pc = "returned"

====
